---------------------------- MODULE Spec2Model ----------------------------
(***************************************************************************)
(* A model of rust-nlp-tools: the language-tag parser (language-tag-parser *)
(* crate) and the LanguageCode operations built on it (language-codes      *)
(* crate).                                                                 *)
(*                                                                         *)
(* Strings are sequences of one-character strings.  A u64 is the set of    *)
(* the positions (0 = least significant .. 63) of its one bits, so the     *)
(* bitwise operators of the source are set operators and nothing is lost   *)
(* to the width of the model checker's integers.                           *)
(***************************************************************************)
EXTENDS Integers, Sequences, FiniteSets, TLC

VARIABLES
    pc,         \* which operation ran last
    build,      \* "debug" (overflow checks on) or "release" (wrapping arithmetic)
    tag_in,     \* the string handed to parse_tag
    parsed,     \* the result of parse_tag(tag_in)
    unparsed,   \* the result of unparse_tag on the parsed code
    code_x,     \* the code the LanguageCode operations started from
    code_y,     \* the code the last LanguageCode operation returned
    ops,        \* the operations applied to code_x so far, oldest first
    code_b,     \* the second code of a distance computation
    broadened,  \* the result of broaden on code_x
    dist,       \* the result of match_distance(code_x, code_b)
    want,       \* the desired code of a matching call
    desired,    \* the list of desired codes of match_lists_with_cutoff
    have,       \* the list of codes of a matching call
    cut,        \* the cutoff of a matching call
    matched,    \* the (code, distance) pair the matching call returned
    static_maps, \* TAG_REPLACE .. MATCH_DISTANCE, the static maps of langdata.rs
    languages,  \* the constants generated into languages.rs
    subtag_in,  \* the subtag handed to encode_subtag
    other_in,   \* a second subtag, encoded with the same length
    length_in,  \* the length argument of encode_subtag
    encoded,    \* the results of encode_subtag on subtag and on other
    decoded     \* the result of decode_subtag on the encoded subtag

tables == <<static_maps, languages>>
codec == <<subtag_in, other_in, length_in, encoded, decoded>>
vars == <<pc, build, tag_in, parsed, unparsed, code_x, code_y, ops, code_b, broadened, dist,
          want, desired, have, cut, matched, tables, codec>>

-----------------------------------------------------------------------------
(* Characters and strings                                                  *)

LowerSeq == <<"a","b","c","d","e","f","g","h","i","j","k","l","m",
              "n","o","p","q","r","s","t","u","v","w","x","y","z">>
UpperSeq == <<"A","B","C","D","E","F","G","H","I","J","K","L","M",
              "N","O","P","Q","R","S","T","U","V","W","X","Y","Z">>
DigitSeq == <<"0","1","2","3","4","5","6","7","8","9">>
\* The five characters after "z" (bytes 123..127; "DEL" stands for byte 127).
HighSeq == <<"{", "|", "}", "~", "DEL">>

Range(f) == {f[i] : i \in DOMAIN f}
\* The element of a one-element set.  A value bound through a set is
\* computed once, however often it is used.
TheOne(S) == CHOOSE v \in S : TRUE
IndexOf(seq, c) == CHOOSE i \in DOMAIN seq : seq[i] = c

LowerChars == Range(LowerSeq)
UpperChars == Range(UpperSeq)
DigitChars == Range(DigitSeq)
HighChars == Range(HighSeq)

\* The bytes of the ASCII characters the model uses.
ByteTable ==
    [c \in LowerChars \cup UpperChars \cup DigitChars \cup HighChars
            \cup {"-", "_", "!"} |->
        IF c \in LowerChars THEN 96 + IndexOf(LowerSeq, c)
        ELSE IF c \in HighChars THEN 122 + IndexOf(HighSeq, c)
        ELSE IF c \in UpperChars THEN 64 + IndexOf(UpperSeq, c)
        ELSE IF c \in DigitChars THEN 47 + IndexOf(DigitSeq, c)
        ELSE IF c = "-" THEN 45
        ELSE IF c = "_" THEN 95
        ELSE 33]
Byte(c) == ByteTable[c]

\* char::is_digit(10)
IsDigit(c) == c \in DigitChars

\* str::to_lowercase and to_uppercase on ASCII text
LowerChar(c) == IF c \in UpperChars THEN LowerSeq[IndexOf(UpperSeq, c)] ELSE c
UpperChar(c) == IF c \in LowerChars THEN UpperSeq[IndexOf(LowerSeq, c)] ELSE c
to_lowercase(s) == [i \in 1..Len(s) |-> LowerChar(s[i])]
to_uppercase(s) == [i \in 1..Len(s) |-> UpperChar(s[i])]

\* str::replace(from, to) for one-character patterns
replace(s, from, to) == [i \in 1..Len(s) |-> IF s[i] = from THEN to ELSE s[i]]

\* str::split(sep): the pieces between separators; never an empty list.
RECURSIVE SplitFrom(_, _, _, _)
SplitFrom(s, sep, i, cur) ==
    IF i > Len(s) THEN <<cur>>
    ELSE IF s[i] = sep THEN <<cur>> \o SplitFrom(s, sep, i + 1, <<>>)
    ELSE SplitFrom(s, sep, i + 1, Append(cur, s[i]))
split(s, sep) == SplitFrom(s, sep, 1, <<>>)

\* [String]::join(sep)
RECURSIVE join(_, _)
join(parts, sep) ==
    IF Len(parts) = 0 THEN <<>>
    ELSE IF Len(parts) = 1 THEN parts[1]
    ELSE parts[1] \o <<sep>> \o join(Tail(parts), sep)

-----------------------------------------------------------------------------
(* 64-bit unsigned integers as sets of bit positions                       *)

Bits64 == 0..63
Pow2(i) == 2 ^ i

\* A natural number below 2^31 as a u64.
U64(n) == {i \in 0..30 : (n \div Pow2(i)) % 2 = 1}
\* A u64 from its four 16-bit groups, most significant first (one group per
\* four hexadecimal digits of the source's literals).
U64Hex(w3, w2, w1, w0) ==
    {i + 48 : i \in U64(w3)} \cup {i + 32 : i \in U64(w2)} \cup
    {i + 16 : i \in U64(w1)} \cup U64(w0)
\* The value of a u64 that fits 31 bits.
RECURSIVE NatFrom(_, _)
NatFrom(v, i) == IF i > 30 THEN 0 ELSE (IF i \in v THEN Pow2(i) ELSE 0) + NatFrom(v, i + 1)
Nat31(v) == NatFrom(v, 0)

BitAnd(a, b) == a \cap b
BitOr(a, b) == a \cup b
BitNot(a) == Bits64 \ a
\* a << k and a >> k for 0 <= k < 64: bits shifted out are lost.
Shl(a, k) == {i + k : i \in {j \in a : j + k <= 63}}
Shr(a, k) == {i - k : i \in {j \in a : j >= k}}

\* a + b with the carry out of bit 63: [sum, carry].  The carry into bit i is
\* set when some lower bit j generates one (both operands have it) and every
\* bit between j and i propagates it (either operand has it).
CarryInto(a, b, i) ==
    \E j \in (a \cap b) : j < i /\ \A k \in (j + 1)..(i - 1) : k \in (a \cup b)
AddCarry(a, b) ==
    [sum |-> {i \in Bits64 : (i \in a) # ((i \in b) # CarryInto(a, b, i))},
     carry |-> CarryInto(a, b, 64)]
WrappingAdd(a, b) == AddCarry(a, b).sum

-----------------------------------------------------------------------------
(* language-tag-parser: constants                                          *)

\* LANGUAGE_MASK with a slip: the field one bit higher, bits 63-49.
LANGUAGE_MASK_OneBitUp == U64Hex(65534, 0, 0, 0)
LANGUAGE_MASK == U64Hex(32767, 0, 0, 0)          \* 0x7fff_0000_0000_0000
PROTO_MASK == U64Hex(0, 32768, 0, 0)             \* 0x0000_8000_0000_0000
EXTLANG_MASK == U64Hex(0, 32767, 0, 0)           \* 0x0000_7fff_0000_0000
LANGUAGE_EXT_MASK == U64Hex(32767, 65535, 0, 0)  \* 0x7fff_ffff_0000_0000
SCRIPT_MASK == U64Hex(0, 0, 32767, 63488)        \* 0x0000_0000_7fff_f800
REGION_MASK == U64Hex(0, 0, 0, 2047)             \* 0x0000_0000_0000_07ff
SCRIPT_SHIFT == 11
EXTLANG_SHIFT == 32
LANGUAGE_SHIFT == 48
EMPTY_CODE == U64(0)
\* 1916703853911212032 = 0x1a99_8000_0000_0000
MISSING_CODE == U64Hex(6809, 32768, 0, 0)

-----------------------------------------------------------------------------
(* language-tag-parser: the subtag codec                                   *)

\* Option<T>: None is the empty sequence, Some(v) the one-element sequence.
None == <<>>
Some(v) == <<v>>
IsSome(o) == Len(o) = 1
Unwrap(o) == o[1]

\* (96u64 + charnum) as u8 as char, for charnum in 1..31
CharOfNum(charnum) ==
    IF charnum <= 26 THEN LowerSeq[charnum] ELSE HighSeq[charnum - 26]

\* format!("{number:>0width$}", number = n, width = 3) for n < 1000
Format03(n) ==
    <<DigitSeq[(n \div 100) + 1], DigitSeq[((n \div 10) % 10) + 1], DigitSeq[(n % 10) + 1]>>

\* The while loop of decode_subtag: the characters as pushed, last first.
RECURSIVE DecodeChars(_)
DecodeChars(remain) ==
    IF remain > 0
    THEN (IF remain % 32 > 0 THEN <<CharOfNum(remain % 32)>> ELSE <<>>)
         \o DecodeChars(remain \div 32)
    ELSE <<>>

Reverse(s) == [i \in 1..Len(s) |-> s[Len(s) + 1 - i]]

\* decode_subtag with a slip: the characters are not put back in order.
decode_subtag_NotReversed(v) ==
    LET val == Nat31(v) IN
    IF val = 0 THEN None
    ELSE IF val < 1000 THEN Some(Format03(val))
    ELSE Some(DecodeChars(val - 1000))

\* decode_subtag on a value of at most 31 bits (every caller masks and
\* shifts a field of at most 20 bits down to bit 0 first).
decode_subtag(v) ==
    LET val == Nat31(v) IN
    IF val = 0 THEN None
    ELSE IF val < 1000 THEN Some(Format03(val))
    ELSE Some(Reverse(DecodeChars(val - 1000)))

\* str::parse::<u64>: Ok for a non-empty string of ASCII digits whose value
\* fits 64 bits (checked multiply and add), Err otherwise.
RECURSIVE ParseDigits(_, _, _)
ParseDigits(s, i, acc) ==
    IF i > Len(s) THEN [ok |-> TRUE, val |-> acc]
    ELSE IF ~IsDigit(s[i]) THEN [ok |-> FALSE, val |-> {}]
    ELSE TheOne({
         IF acc \cap {61, 62, 63} # {} \/ m.carry \/ d.carry
         THEN [ok |-> FALSE, val |-> {}]
         ELSE ParseDigits(s, i + 1, d.sum)
         : m \in {AddCarry(Shl(acc, 3), Shl(acc, 1))},
           d \in {AddCarry(AddCarry(Shl(acc, 3), Shl(acc, 1)).sum,
                           U64(Byte(s[i]) - 48))}})
parse_u64(s) ==
    IF Len(s) = 0 THEN [ok |-> FALSE, val |-> {}] ELSE ParseDigits(s, 1, {})

\* The for loop of encode_subtag: val <<= 5; val += (ch as u8 - 96u8) as u64.
\* With overflow checks the u8 subtraction panics on a byte below 96; without
\* them it wraps modulo 256.
RECURSIVE EncodeChars(_, _, _, _)
EncodeChars(s, i, val, checks) ==
    IF i > Len(s) THEN [panic |-> FALSE, val |-> val]
    ELSE IF Byte(s[i]) < 96 /\ checks THEN [panic |-> TRUE, val |-> {}]
    ELSE TheOne({EncodeChars(s, i + 1, next, checks) :
                    next \in {WrappingAdd(Shl(val, 5), U64((Byte(s[i]) - 96) % 256))}})

\* ShiftAmount with a slip: no padding to the length.
ShiftAmount_NoPadding(length, len) == 0

\* val <<= 5 * (length - subtag.len()).  With overflow checks the usize
\* subtraction panics when the subtag is longer than length; without them the
\* subtraction and the multiplication wrap modulo 2^64 and the shift amount is
\* taken modulo 64.
ShiftAmount(length, len) ==
    IF len <= length THEN 5 * (length - len)
    ELSE (64 - ((5 * (len - length)) % 64)) % 64

encode_subtag(subtag, length, checks) ==
    TheOne({
    IF num.ok THEN [panic |-> FALSE, val |-> num.val]
    ELSE TheOne({
         IF packed.panic \/ (Len(subtag) > length /\ checks)
         THEN [panic |-> TRUE, val |-> {}]
         ELSE [panic |-> FALSE,
               val |-> WrappingAdd(Shl(packed.val, ShiftAmount(length, Len(subtag))),
                                   U64(1000))]
         : packed \in {EncodeChars(subtag, 1, {}, checks)}})
    : num \in {parse_u64(subtag)}})

-----------------------------------------------------------------------------
(* language-tag-parser: the shape tests                                    *)

check_characters(subtag) ==
    \A i \in 1..Len(subtag) :
        \/ (Byte(subtag[i]) >= 48 /\ Byte(subtag[i]) <= 57)
        \/ (Byte(subtag[i]) >= 97 /\ Byte(subtag[i]) <= 122)

is_extension(subtag) == subtag = <<"u">> \/ subtag = <<"x">>

is_variant(subtag) ==
    IF Len(subtag) = 4 THEN IsDigit(subtag[1])
    ELSE Len(subtag) >= 5

is_region(subtag) ==
    IF Len(subtag) = 0 THEN FALSE
    ELSE (IsDigit(subtag[1]) /\ Len(subtag) = 3) \/ Len(subtag) = 2

is_script(subtag) == Len(subtag) = 4

is_extlang(subtag) ==
    IF Len(subtag) = 3 THEN ~IsDigit(subtag[1]) ELSE FALSE

-----------------------------------------------------------------------------
(* language-tag-parser: parse_tag                                          *)

\* Result<u64, LanguageCodeError>, or a panic.  kind is "Ok", one of the three
\* error names, or "panic"; err is the payload of an error.  seen is not
\* program state: it records which kinds of subtag the parser consumed.
ParseOk(val, seen) == [kind |-> "Ok", val |-> val, err |-> <<>>, seen |-> seen]
ParseErr(kind, tag) == [kind |-> kind, val |-> {}, err |-> tag, seen |-> {}]
ParsePanic == [kind |-> "panic", val |-> {}, err |-> <<>>, seen |-> {}]

\* The loop variables of parse_lowercase_tag.  state and num are the
\* ParserState (num is the count carried by AfterLanguage); halt is "" while
\* the loop runs, "break" after an extension subtag, or the kind of the early
\* return.
LoopState(val, state, num, halt, seen) ==
    [val |-> val, state |-> state, num |-> num, halt |-> halt, seen |-> seen]

\* ParseSubtag with a slip: a region is taken in every state.
ParseSubtag_RegionAnywhere(st, subtag_ref, checks) ==
    LET language_state == IF st.state = "AfterLanguage" THEN st.num ELSE -1 IN
    IF ~check_characters(subtag_ref) THEN [st EXCEPT !.halt = "InvalidCharacter"]
    ELSE IF is_extension(subtag_ref) THEN [st EXCEPT !.halt = "break"]
    ELSE IF st.state # "AfterVariant" /\ is_variant(subtag_ref)
    THEN [st EXCEPT !.state = "AfterVariant", !.num = 0,
                    !.seen = @ \cup {"variant"}]
    ELSE IF is_region(subtag_ref)
    THEN TheOne({
         IF e.panic THEN [st EXCEPT !.halt = "panic"]
         ELSE [st EXCEPT !.val = BitOr(@, e.val), !.state = "AfterRegion", !.num = 0,
                         !.seen = @ \cup {"region"}]
         : e \in {encode_subtag(subtag_ref, 2, checks)}})
    ELSE IF language_state >= 0 /\ is_script(subtag_ref)
    THEN TheOne({
         IF e.panic THEN [st EXCEPT !.halt = "panic"]
         ELSE [st EXCEPT !.val = BitOr(@, Shl(e.val, SCRIPT_SHIFT)),
                         !.state = "AfterScript", !.num = 0,
                         !.seen = @ \cup {"script"}]
         : e \in {encode_subtag(subtag_ref, 4, checks)}})
    ELSE IF language_state >= 0 /\ language_state < 3 /\ is_extlang(subtag_ref)
    THEN IF subtag_ref = <<"p", "r", "o">>
         THEN [st EXCEPT !.val = BitOr(@, PROTO_MASK), !.num = language_state + 1,
                         !.seen = @ \cup {"extlang"}]
         ELSE IF BitAnd(st.val, EXTLANG_MASK) = {}
         THEN TheOne({
              IF e.panic THEN [st EXCEPT !.halt = "panic"]
              ELSE [st EXCEPT !.val = BitOr(@, Shl(e.val, EXTLANG_SHIFT)),
                              !.num = language_state + 1,
                              !.seen = @ \cup {"extlang"}]
              : e \in {encode_subtag(subtag_ref, 3, checks)}})
         ELSE [st EXCEPT !.num = language_state + 1, !.seen = @ \cup {"extlang"}]
    ELSE [st EXCEPT !.halt = "SubtagFormatError"]

\* One iteration of the for loop of parse_lowercase_tag.
ParseSubtag(st, subtag_ref, checks) ==
    LET language_state == IF st.state = "AfterLanguage" THEN st.num ELSE -1 IN
    IF ~check_characters(subtag_ref) THEN [st EXCEPT !.halt = "InvalidCharacter"]
    ELSE IF is_extension(subtag_ref) THEN [st EXCEPT !.halt = "break"]
    ELSE IF st.state # "AfterVariant" /\ is_variant(subtag_ref)
    THEN [st EXCEPT !.state = "AfterVariant", !.num = 0,
                    !.seen = @ \cup {"variant"}]
    ELSE IF (language_state >= 0 \/ st.state = "AfterScript") /\ is_region(subtag_ref)
    THEN TheOne({
         IF e.panic THEN [st EXCEPT !.halt = "panic"]
         ELSE [st EXCEPT !.val = BitOr(@, e.val), !.state = "AfterRegion", !.num = 0,
                         !.seen = @ \cup {"region"}]
         : e \in {encode_subtag(subtag_ref, 2, checks)}})
    ELSE IF language_state >= 0 /\ is_script(subtag_ref)
    THEN TheOne({
         IF e.panic THEN [st EXCEPT !.halt = "panic"]
         ELSE [st EXCEPT !.val = BitOr(@, Shl(e.val, SCRIPT_SHIFT)),
                         !.state = "AfterScript", !.num = 0,
                         !.seen = @ \cup {"script"}]
         : e \in {encode_subtag(subtag_ref, 4, checks)}})
    ELSE IF language_state >= 0 /\ language_state < 3 /\ is_extlang(subtag_ref)
    THEN IF subtag_ref = <<"p", "r", "o">>
         THEN [st EXCEPT !.val = BitOr(@, PROTO_MASK), !.num = language_state + 1,
                         !.seen = @ \cup {"extlang"}]
         ELSE IF BitAnd(st.val, EXTLANG_MASK) = {}
         THEN TheOne({
              IF e.panic THEN [st EXCEPT !.halt = "panic"]
              ELSE [st EXCEPT !.val = BitOr(@, Shl(e.val, EXTLANG_SHIFT)),
                              !.num = language_state + 1,
                              !.seen = @ \cup {"extlang"}]
              : e \in {encode_subtag(subtag_ref, 3, checks)}})
         ELSE [st EXCEPT !.num = language_state + 1, !.seen = @ \cup {"extlang"}]
    ELSE [st EXCEPT !.halt = "SubtagFormatError"]

\* The for loop: the subtags after the first, in order, until one halts it.
RECURSIVE ParseLoop(_, _, _, _)
ParseLoop(st, parts, i, checks) ==
    IF i > Len(parts) \/ st.halt # "" THEN st
    ELSE TheOne({ParseLoop(next, parts, i + 1, checks) :
                    next \in {ParseSubtag(st, parts[i], checks)}})

\* The match on the first subtag, then the loop.
ParseParts(tag, parts, checks) ==
    IF Len(parts) = 0 THEN ParseErr("ParseError", tag)
    ELSE IF parts[1] = <<"i">> \/ parts[1] = <<"x">>
    THEN ParseOk(MISSING_CODE, {"language"})
    ELSE LET isUnd == parts[1] = <<"u", "n", "d">> IN
         IF ~isUnd /\ ~check_characters(parts[1]) THEN ParseErr("InvalidCharacter", tag)
         ELSE TheOne({
              IF e.panic THEN ParsePanic
              ELSE TheOne({
                   IF end.halt \in {"", "break"} THEN ParseOk(end.val, end.seen)
                   ELSE IF end.halt = "panic" THEN ParsePanic
                   ELSE ParseErr(end.halt, tag)
                   : end \in {ParseLoop(LoopState(Shl(e.val, LANGUAGE_SHIFT),
                                                  "AfterLanguage", 0, "",
                                                  IF isUnd THEN {} ELSE {"language"}),
                                        parts, 2, checks)}})
              : e \in {IF isUnd THEN [panic |-> FALSE, val |-> {}]
                       ELSE encode_subtag(parts[1], 3, checks)}})

parse_lowercase_tag(tag, checks) ==
    TheOne({ParseParts(tag, parts, checks) : parts \in {split(tag, "-")}})

parse_tag(tag, checks) ==
    TheOne({parse_lowercase_tag(normal_tag, checks) :
               normal_tag \in {to_lowercase(replace(tag, "_", "-"))}})

-----------------------------------------------------------------------------
(* language-tag-parser: unparse_tag, update_tag, broader_tags              *)

decode_language(val) ==
    LET lang == decode_subtag(Shr(BitAnd(val, LANGUAGE_MASK), LANGUAGE_SHIFT)) IN
    IF IsSome(lang) THEN Unwrap(lang) ELSE <<"u", "n", "d">>

\* decode_extlang with a slip: the proto bit alone decodes to nothing.
decode_extlang_ProtoAloneDropped(val) ==
    LET proto == BitAnd(val, PROTO_MASK) # {}
        lang == decode_subtag(Shr(BitAnd(val, EXTLANG_MASK), EXTLANG_SHIFT))
    IN IF IsSome(lang)
       THEN (IF proto THEN Some(Unwrap(lang) \o <<"-", "p", "r", "o">>) ELSE lang)
       ELSE None

decode_extlang(val) ==
    LET proto == BitAnd(val, PROTO_MASK) # {}
        lang == decode_subtag(Shr(BitAnd(val, EXTLANG_MASK), EXTLANG_SHIFT))
    IN IF IsSome(lang)
       THEN (IF proto THEN Some(Unwrap(lang) \o <<"-", "p", "r", "o">>) ELSE lang)
       ELSE (IF proto THEN Some(<<"p", "r", "o">>) ELSE None)

\* decode_script: script.split_at(1) panics on an empty string, which
\* decode_subtag returns for the value 1000.
decode_script_panics(val) ==
    decode_subtag(Shr(BitAnd(val, SCRIPT_MASK), SCRIPT_SHIFT)) = Some(<<>>)

decode_script(val) ==
    LET script == decode_subtag(Shr(BitAnd(val, SCRIPT_MASK), SCRIPT_SHIFT)) IN
    IF IsSome(script)
    THEN Some(to_uppercase(SubSeq(Unwrap(script), 1, 1))
              \o SubSeq(Unwrap(script), 2, Len(Unwrap(script))))
    ELSE None

decode_region(val) ==
    LET region == decode_subtag(BitAnd(val, REGION_MASK)) IN
    IF IsSome(region) THEN Some(to_uppercase(Unwrap(region))) ELSE None

\* unparse_tag: [kind |-> "Ok", str |-> the tag] or a panic.
unparse_tag(val) ==
    IF decode_script_panics(val) THEN [kind |-> "panic", str |-> <<>>]
    ELSE [kind |-> "Ok",
          str |-> join(<<decode_language(val)>> \o decode_extlang(val)
                       \o decode_script(val) \o decode_region(val), "-")]

\* update_tag with a slip: the region of new_tag clears the region of
\* old_tag but is not copied in.
update_tag_RegionNotCopied(old_tag, new_tag) ==
    LET update_mask ==
            (IF BitAnd(new_tag, LANGUAGE_EXT_MASK) # {} THEN LANGUAGE_EXT_MASK ELSE {})
            \cup (IF BitAnd(new_tag, SCRIPT_MASK) # {} THEN SCRIPT_MASK ELSE {})
            \cup (IF BitAnd(new_tag, REGION_MASK) # {} THEN REGION_MASK ELSE {})
    IN BitOr(BitAnd(old_tag, BitNot(update_mask)),
             BitAnd(new_tag, update_mask \ REGION_MASK))

\* update_tag with a slip: a new language replaces the language field
\* alone, the extlang and the proto bit of old_tag stay.
update_tag_ExtlangKept(old_tag, new_tag) ==
    LET update_mask ==
            (IF BitAnd(new_tag, LANGUAGE_EXT_MASK) # {} THEN LANGUAGE_MASK ELSE {})
            \cup (IF BitAnd(new_tag, SCRIPT_MASK) # {} THEN SCRIPT_MASK ELSE {})
            \cup (IF BitAnd(new_tag, REGION_MASK) # {} THEN REGION_MASK ELSE {})
    IN BitOr(BitAnd(old_tag, BitNot(update_mask)), BitAnd(new_tag, update_mask))

update_tag(old_tag, new_tag) ==
    LET update_mask ==
            (IF BitAnd(new_tag, LANGUAGE_EXT_MASK) # {} THEN LANGUAGE_EXT_MASK ELSE {})
            \cup (IF BitAnd(new_tag, SCRIPT_MASK) # {} THEN SCRIPT_MASK ELSE {})
            \cup (IF BitAnd(new_tag, REGION_MASK) # {} THEN REGION_MASK ELSE {})
    IN BitOr(BitAnd(old_tag, BitNot(update_mask)), BitAnd(new_tag, update_mask))

broader_tags(tag) ==
    LET possibilities ==
            <<BitAnd(tag, LANGUAGE_MASK \cup SCRIPT_MASK \cup REGION_MASK),
              BitAnd(tag, LANGUAGE_MASK \cup REGION_MASK),
              BitAnd(tag, LANGUAGE_MASK \cup SCRIPT_MASK),
              BitAnd(tag, LANGUAGE_MASK),
              BitAnd(tag, REGION_MASK),
              BitAnd(tag, SCRIPT_MASK)>>
        differs(n) == n # tag
    IN SelectSeq(possibilities, differs)

-----------------------------------------------------------------------------
(* language-codes: the tables build.rs generates                           *)

\* language-codes calls the parser's functions encode_tag, decode_tag and
\* update_code; they are parse_tag, unparse_tag and update_tag above.
\* build.rs runs with overflow checks on; every tag below is well formed, so
\* the checks never fire.
encode_tag(tag) == parse_tag(tag, TRUE).val
decode_tag(val) == unparse_tag(val)
update_code(old_tag, new_tag) == update_tag(old_tag, new_tag)

\* The key of MATCH_DISTANCE: the two codes, desired first.
language_pair_bytes(lang1, lang2) == <<lang1, lang2>>

\* An excerpt of data/likelySubtags.json: <<key, value>>.
LikelySubtagsData ==
    <<<<<<"u", "n", "d">>,
        <<"e", "n", "-", "L", "a", "t", "n", "-", "U", "S">>>>,
      <<<<"e", "n">>,
        <<"e", "n", "-", "L", "a", "t", "n", "-", "U", "S">>>>,
      <<<<"e", "n", "-", "S", "h", "a", "w">>,
        <<"e", "n", "-", "S", "h", "a", "w", "-", "G", "B">>>>,
      <<<<"j", "a">>,
        <<"j", "a", "-", "J", "p", "a", "n", "-", "J", "P">>>>,
      <<<<"z", "h">>,
        <<"z", "h", "-", "H", "a", "n", "s", "-", "C", "N">>>>,
      <<<<"z", "h", "-", "H", "a", "n", "t">>,
        <<"z", "h", "-", "H", "a", "n", "t", "-", "T", "W">>>>,
      <<<<"z", "h", "-", "T", "W">>,
        <<"z", "h", "-", "H", "a", "n", "t", "-", "T", "W">>>>,
      <<<<"u", "n", "d", "-", "H", "a", "n", "t">>,
        <<"z", "h", "-", "H", "a", "n", "t", "-", "T", "W">>>>,
      <<<<"p", "t">>,
        <<"p", "t", "-", "L", "a", "t", "n", "-", "B", "R">>>>,
      <<<<"e", "s">>,
        <<"e", "s", "-", "L", "a", "t", "n", "-", "E", "S">>>>,
      <<<<"v", "a", "i">>,
        <<"v", "a", "i", "-", "V", "a", "i", "i", "-", "L", "R">>>>,
      <<<<"u", "n", "d", "-", "V", "a", "i", "i">>,
        <<"v", "a", "i", "-", "V", "a", "i", "i", "-", "L", "R">>>>,
      <<<<"u", "n", "d", "-", "0", "1", "4">>,
        <<"s", "w", "-", "L", "a", "t", "n", "-", "T", "Z">>>>,
      <<<<"n", "b">>,
        <<"n", "b", "-", "L", "a", "t", "n", "-", "N", "O">>>>,
      <<<<"n", "o">>,
        <<"n", "o", "-", "L", "a", "t", "n", "-", "N", "O">>>>,
      <<<<"t", "a">>,
        <<"t", "a", "-", "T", "a", "m", "l", "-", "I", "N">>>>,
      <<<<"u", "n", "d", "-", "J", "P">>,
        <<"j", "a", "-", "J", "p", "a", "n", "-", "J", "P">>>>>>

\* An excerpt of data/matching.txt: <<lang1, lang2, distance, symmetric>>.
MatchingData ==
    <<<<<<"n", "o">>, <<"n", "b">>, 1, TRUE>>,
      <<<<"t", "a", "-", "T", "a", "m", "l">>, <<"e", "n", "-", "L", "a", "t", "n">>, 10, FALSE>>,
      <<<<"e", "n", "-", "L", "a", "t", "n", "-", "U", "S">>, <<"e", "n", "-", "L", "a", "t", "n", "-", "P", "R">>, 4, TRUE>>,
      <<<<"p", "t", "-", "L", "a", "t", "n", "-", "B", "R">>, <<"p", "t", "-", "L", "a", "t", "n", "-", "U", "S">>, 4, TRUE>>>>

\* An excerpt of data/languages.txt: the tag of each named constant.
LanguagesData ==
    [UNKNOWN |-> <<"u", "n", "d">>,
     ENGLISH |-> <<"e", "n">>,
     AMERICAN_ENGLISH |-> <<"e", "n", "-", "U", "S">>,
     BRITISH_ENGLISH |-> <<"e", "n", "-", "G", "B">>,
     INTERNATIONAL_ENGLISH |-> <<"e", "n", "-", "0", "0", "1">>,
     SPANISH |-> <<"e", "s">>,
     EUROPEAN_SPANISH |-> <<"e", "s", "-", "E", "S">>,
     LATIN_AMERICAN_SPANISH |-> <<"e", "s", "-", "4", "1", "9">>,
     PORTUGUESE |-> <<"p", "t">>,
     BRAZILIAN_PORTUGUESE |-> <<"p", "t", "-", "B", "R">>,
     AMERICAN_PORTUGUESE |-> <<"p", "t", "-", "U", "S">>,
     SIMPLIFIED_CHINESE |-> <<"z", "h", "-", "H", "a", "n", "s">>,
     TRADITIONAL_CHINESE |-> <<"z", "h", "-", "H", "a", "n", "t">>]

\* phf::Map<u64, u64>: a function from the keys to the values.
EncodeRows(data) == [i \in DOMAIN data |-> [j \in 1..2 |-> encode_tag(data[i][j])]]
LikelySubtagsMap ==
    TheOne({[k \in {codes[i][1] : i \in DOMAIN codes} |->
                codes[CHOOSE i \in DOMAIN codes : codes[i][1] = k][2]]
            : codes \in {EncodeRows(LikelySubtagsData)}})

\* phf::Map<[u8; 16], i32>: both orderings of a symmetric line.
MatchingKeys(codes, i) ==
    {language_pair_bytes(codes[i][1], codes[i][2])} \cup
    (IF MatchingData[i][4] THEN {language_pair_bytes(codes[i][2], codes[i][1])} ELSE {})
MatchDistanceMap ==
    TheOne({[k \in UNION {MatchingKeys(codes, i) : i \in DOMAIN MatchingData} |->
                MatchingData[CHOOSE i \in DOMAIN MatchingData :
                                 k \in MatchingKeys(codes, i)][3]]
            : codes \in {EncodeRows(MatchingData)}})

\* languages.rs: pub const NAME: LanguageCode = LanguageCode { data: ... }
LanguageConstants == [n \in DOMAIN LanguagesData |-> encode_tag(LanguagesData[n])]

\* An excerpt of languageAlias of data/aliases.json: <<key, _replacement>>.
LanguageAliasData ==
    <<<<<<"s", "h">>, <<"s", "r", "-", "L", "a", "t", "n">>>>,
      <<<<"m", "o">>, <<"r", "o", "-", "M", "D">>>>,
      <<<<"f", "r", "a">>, <<"f", "r">>>>,
      <<<<"s", "g", "n", "-", "B", "E", "-", "F", "R">>, <<"s", "f", "b">>>>,
      <<<<"i", "-", "h", "a", "k">>, <<"h", "a", "k">>>>>>

\* An excerpt of territoryAlias of data/aliases.json: <<key, _replacement>>.
TerritoryAliasData ==
    <<<<<<"D", "D">>, <<"D", "E">>>>,
      <<<<"U", "K">>, <<"G", "B">>>>,
      <<<<"8", "4", "0">>, <<"U", "S">>>>,
      <<<<"Q", "U">>, <<"E", "U">>>>>>

\* TAG_REPLACE: from the lowercased key of every language alias to the code
\* of its replacement.
TagReplaceMap ==
    [k \in {to_lowercase(LanguageAliasData[i][1]) : i \in DOMAIN LanguageAliasData} |->
        encode_tag(LanguageAliasData[CHOOSE i \in DOMAIN LanguageAliasData :
                                         to_lowercase(LanguageAliasData[i][1]) = k][2])]

\* LANG_REPLACE: the aliases whose key has no "-", keyed by the key's code.
LangReplaceMap ==
    TheOne({[k \in {codes[i][1] : i \in {j \in DOMAIN codes :
                                            "-" \notin Range(LanguageAliasData[j][1])}} |->
                codes[CHOOSE i \in DOMAIN codes : codes[i][1] = k][2]]
            : codes \in {EncodeRows(LanguageAliasData)}})

\* format!("und-{}", key)
UndPlus(key) == <<"u", "n", "d", "-">> \o key

\* REGION_REPLACE: from the code of und-<key> to the code of
\* und-<replacement>, for keys of two characters or starting with a digit
\* whose replacement holds no space.
RegionReplaceMap ==
    TheOne({[k \in {codes[i][1] : i \in DOMAIN codes} |->
                codes[CHOOSE i \in DOMAIN codes : codes[i][1] = k][2]]
            : codes \in {EncodeRows(
                  [i \in DOMAIN TerritoryAliasData |->
                      <<UndPlus(TerritoryAliasData[i][1]),
                        UndPlus(TerritoryAliasData[i][2])>>])}})

\* The generated tables never change.
InitTables ==
    /\ static_maps = [TAG_REPLACE |-> TagReplaceMap,
                      LANG_REPLACE |-> LangReplaceMap,
                      REGION_REPLACE |-> RegionReplaceMap,
                      LIKELY_SUBTAGS |-> LikelySubtagsMap,
                      MATCH_DISTANCE |-> MatchDistanceMap]
    /\ languages = LanguageConstants

\* The parser crate alone has no tables.
NoTables ==
    /\ static_maps = [TAG_REPLACE |-> <<>>, LANG_REPLACE |-> <<>>,
                      REGION_REPLACE |-> <<>>,
                      LIKELY_SUBTAGS |-> <<>>, MATCH_DISTANCE |-> <<>>]
    /\ languages = <<>>

SIMPLIFIED == BitAnd(languages.SIMPLIFIED_CHINESE, SCRIPT_MASK)
TRADITIONAL == BitAnd(languages.TRADITIONAL_CHINESE, SCRIPT_MASK)

-----------------------------------------------------------------------------
(* language-codes: broaden, maximize, minimize                             *)

\* What a call that panicked "returns": no u64.
Panicked == {-1}

\* broaden with a slip: the empty code is not among the possibilities.
broaden_NoEmptyCode(data) ==
    LET possibilities ==
            <<BitAnd(data, LANGUAGE_MASK \cup SCRIPT_MASK \cup REGION_MASK),
              BitAnd(data, LANGUAGE_MASK \cup REGION_MASK),
              BitAnd(data, LANGUAGE_MASK \cup SCRIPT_MASK),
              BitAnd(data, LANGUAGE_MASK),
              BitAnd(data, REGION_MASK),
              BitAnd(data, SCRIPT_MASK)>>
        differs(n) == n # data
    IN SelectSeq(possibilities, differs)

broaden(data) ==
    LET possibilities ==
            <<BitAnd(data, LANGUAGE_MASK \cup SCRIPT_MASK \cup REGION_MASK),
              BitAnd(data, LANGUAGE_MASK \cup REGION_MASK),
              BitAnd(data, LANGUAGE_MASK \cup SCRIPT_MASK),
              BitAnd(data, LANGUAGE_MASK),
              BitAnd(data, REGION_MASK),
              BitAnd(data, SCRIPT_MASK),
              EMPTY_CODE>>
        differs(n) == n # data
    IN SelectSeq(possibilities, differs)

\* The loop of maximize with a slip: the likely value is returned as it is,
\* without the fields of the code laid over it.
RECURSIVE MaximizeFrom_LikelyWins(_, _, _)
MaximizeFrom_LikelyWins(data, broader, i) ==
    IF i > Len(broader) THEN Panicked
    ELSE IF broader[i] \in DOMAIN static_maps.LIKELY_SUBTAGS
    THEN static_maps.LIKELY_SUBTAGS[broader[i]]
    ELSE MaximizeFrom_LikelyWins(data, broader, i + 1)

\* The for loop of maximize over self.broaden().
RECURSIVE MaximizeFrom(_, _, _)
MaximizeFrom(data, broader, i) ==
    IF i > Len(broader) THEN Panicked
    ELSE IF broader[i] \in DOMAIN static_maps.LIKELY_SUBTAGS
    THEN update_code(static_maps.LIKELY_SUBTAGS[broader[i]], data)
    ELSE MaximizeFrom(data, broader, i + 1)

maximize(data) ==
    IF BitAnd(data, LANGUAGE_MASK) # {} /\ BitAnd(data, SCRIPT_MASK) # {}
       /\ BitAnd(data, REGION_MASK) # {}
    THEN data
    ELSE IF data \in DOMAIN static_maps.LIKELY_SUBTAGS THEN static_maps.LIKELY_SUBTAGS[data]
    ELSE TheOne({MaximizeFrom(data, broader, 1) : broader \in {broaden(data)}})

\* The loop of minimize with a slip: when no possibility maximizes to max
\* it returns the last possibility instead of the code itself.
RECURSIVE MinimizeFrom_FallsToLast(_, _, _, _)
MinimizeFrom_FallsToLast(data, max, possibilities, i) ==
    IF i > Len(possibilities) THEN possibilities[Len(possibilities)]
    ELSE TheOne({IF code = Panicked THEN Panicked
                 ELSE IF code = max THEN possibilities[i]
                 ELSE MinimizeFrom_FallsToLast(data, max, possibilities, i + 1)
                 : code \in {maximize(possibilities[i])}})

\* The loop of minimize with a slip: it returns the possibility without
\* comparing its maximized form with max.
MinimizeFrom_Unchecked(data, max, possibilities, i) ==
    IF i > Len(possibilities) THEN data ELSE possibilities[i]

\* The for loop of minimize over its three possibilities.
RECURSIVE MinimizeFrom(_, _, _, _)
MinimizeFrom(data, max, possibilities, i) ==
    IF i > Len(possibilities) THEN data
    ELSE TheOne({IF code = Panicked THEN Panicked
                 ELSE IF code = max THEN possibilities[i]
                 ELSE MinimizeFrom(data, max, possibilities, i + 1)
                 : code \in {maximize(possibilities[i])}})

\* minimize with a slip: the region-keeping possibility is tried before
\* the script-keeping one.
minimize_RegionFirst(data) ==
    LET possibilities ==
            <<BitAnd(data, LANGUAGE_MASK),
              BitAnd(data, LANGUAGE_MASK \cup REGION_MASK),
              BitAnd(data, LANGUAGE_MASK \cup SCRIPT_MASK)>>
    IN TheOne({IF max = Panicked THEN Panicked
               ELSE MinimizeFrom(data, max, possibilities, 1)
               : max \in {maximize(data)}})

minimize(data) ==
    LET possibilities ==
            <<BitAnd(data, LANGUAGE_MASK),
              BitAnd(data, LANGUAGE_MASK \cup SCRIPT_MASK),
              BitAnd(data, LANGUAGE_MASK \cup REGION_MASK)>>
    IN TheOne({IF max = Panicked THEN Panicked
               ELSE MinimizeFrom(data, max, possibilities, 1)
               : max \in {maximize(data)}})

-----------------------------------------------------------------------------
(* language-codes: LanguageCode::parse                                     *)

\* The parser crate's constants for the scripts Qaai and Zinh: the codes of
\* und-Qaai and und-Zinh.
INHERIT_SCRIPT_OLD == Shl(U64(559121), SCRIPT_SHIFT)
INHERIT_SCRIPT == Shl(U64(862640), SCRIPT_SHIFT)

\* The merge of a language alias with a slip: the alias is overlaid and the
\* caller's script and region are not put back.
MergeLanguage_AliasWins(val, newlang) == update_code(val, newlang)

\* The merge of the parsed code with the value of its language alias.
MergeLanguage(val, newlang) ==
    update_code(update_code(val, newlang), BitAnd(val, BitNot(LANGUAGE_EXT_MASK)))

\* The three substitutions parse makes on an encoded tag, in order.
ReplaceLanguage(val) ==
    LET lang_val == BitAnd(val, LANGUAGE_MASK) IN
    IF lang_val \in DOMAIN static_maps.LANG_REPLACE
    THEN MergeLanguage(val, static_maps.LANG_REPLACE[lang_val])
    ELSE val
ReplaceScript(val) ==
    IF BitAnd(val, SCRIPT_MASK) = INHERIT_SCRIPT_OLD
    THEN update_code(val, INHERIT_SCRIPT)
    ELSE val
ReplaceRegion(val) ==
    LET region_val == BitAnd(val, REGION_MASK) IN
    IF region_val \in DOMAIN static_maps.REGION_REPLACE
    THEN update_code(val, static_maps.REGION_REPLACE[region_val])
    ELSE val

\* LanguageCode::parse: Ok with the data of the LanguageCode, an error, or a
\* panic of encode_tag.
parse(tag, checks) ==
    LET normal_tag == to_lowercase(replace(tag, "_", "-")) IN
    IF normal_tag \in DOMAIN static_maps.TAG_REPLACE
    THEN ParseOk(static_maps.TAG_REPLACE[normal_tag], {})
    ELSE TheOne({
         IF e.kind # "Ok" THEN e
         ELSE ParseOk(ReplaceRegion(ReplaceScript(ReplaceLanguage(e.val))), e.seen)
         : e \in {parse_tag(tag, checks)}})

-----------------------------------------------------------------------------
(* language-codes: the distance engine                                     *)

match_distance_language(self, code2) ==
    LET lang1 == BitAnd(self, LANGUAGE_EXT_MASK)
        lang2 == BitAnd(code2, LANGUAGE_EXT_MASK)
        pair == language_pair_bytes(lang1, lang2)
    IN IF lang1 = lang2 THEN 0
       ELSE IF pair \in DOMAIN static_maps.MATCH_DISTANCE THEN static_maps.MATCH_DISTANCE[pair]
       ELSE 80

\* match_distance_script with a slip: the key of the lookup has the
\* supported code first.
match_distance_script_SwappedKey(self, code2) ==
    LET lang1 == BitAnd(self, LANGUAGE_EXT_MASK)
        lang2 == BitAnd(code2, LANGUAGE_EXT_MASK)
        script1 == BitAnd(self, SCRIPT_MASK)
        script2 == BitAnd(code2, SCRIPT_MASK)
        pair == language_pair_bytes(BitOr(lang2, script2), BitOr(lang1, script1))
    IN IF BitOr(lang1, script1) = BitOr(lang2, script2) THEN 0
       ELSE IF script1 = script2 THEN match_distance_language(self, code2)
       ELSE IF pair \in DOMAIN static_maps.MATCH_DISTANCE THEN static_maps.MATCH_DISTANCE[pair]
       ELSE IF script1 = SIMPLIFIED /\ script2 = TRADITIONAL
       THEN 15 + match_distance_language(self, code2)
       ELSE IF script1 = TRADITIONAL /\ script2 = SIMPLIFIED
       THEN 19 + match_distance_language(self, code2)
       ELSE 40 + match_distance_language(self, code2)

\* match_distance_script with a slip: the Simplified / Traditional wildcard
\* is left out, every script mismatch adds 40.
match_distance_script_NoChineseWildcard(self, code2) ==
    LET lang1 == BitAnd(self, LANGUAGE_EXT_MASK)
        lang2 == BitAnd(code2, LANGUAGE_EXT_MASK)
        script1 == BitAnd(self, SCRIPT_MASK)
        script2 == BitAnd(code2, SCRIPT_MASK)
        pair == language_pair_bytes(BitOr(lang1, script1), BitOr(lang2, script2))
    IN IF BitOr(lang1, script1) = BitOr(lang2, script2) THEN 0
       ELSE IF script1 = script2 THEN match_distance_language(self, code2)
       ELSE IF pair \in DOMAIN static_maps.MATCH_DISTANCE THEN static_maps.MATCH_DISTANCE[pair]
       ELSE 40 + match_distance_language(self, code2)

match_distance_script(self, code2) ==
    LET lang1 == BitAnd(self, LANGUAGE_EXT_MASK)
        lang2 == BitAnd(code2, LANGUAGE_EXT_MASK)
        script1 == BitAnd(self, SCRIPT_MASK)
        script2 == BitAnd(code2, SCRIPT_MASK)
        pair == language_pair_bytes(BitOr(lang1, script1), BitOr(lang2, script2))
    IN IF BitOr(lang1, script1) = BitOr(lang2, script2) THEN 0
       ELSE IF script1 = script2 THEN match_distance_language(self, code2)
       ELSE IF pair \in DOMAIN static_maps.MATCH_DISTANCE THEN static_maps.MATCH_DISTANCE[pair]
       ELSE IF script1 = SIMPLIFIED /\ script2 = TRADITIONAL
       THEN 15 + match_distance_language(self, code2)
       ELSE IF script1 = TRADITIONAL /\ script2 = SIMPLIFIED
       THEN 19 + match_distance_language(self, code2)
       ELSE 40 + match_distance_language(self, code2)

\* RegionWildcard with a slip: the en-GB / en-001 rule is left out.
RegionWildcard_NoBritish(lang1, lang2, lang_region1, lang_region2) ==
    IF lang1 = languages.PORTUGUESE /\ lang2 = languages.PORTUGUESE
    THEN IF lang_region1 = languages.BRAZILIAN_PORTUGUESE
            \/ lang_region2 = languages.BRAZILIAN_PORTUGUESE THEN 8
         ELSE IF lang_region1 = languages.AMERICAN_PORTUGUESE
                 \/ lang_region2 = languages.AMERICAN_PORTUGUESE THEN 8
         ELSE 4
    ELSE IF lang1 = languages.ENGLISH /\ lang2 = languages.ENGLISH
    THEN IF lang_region1 = languages.AMERICAN_ENGLISH
            \/ lang_region2 = languages.AMERICAN_ENGLISH THEN 6
         ELSE 5
    ELSE IF lang1 = languages.SPANISH /\ lang2 = languages.SPANISH
    THEN IF lang_region1 = languages.EUROPEAN_SPANISH
            \/ lang_region2 = languages.EUROPEAN_SPANISH THEN 8
         ELSE IF lang_region1 = languages.LATIN_AMERICAN_SPANISH
                 \/ lang_region2 = languages.LATIN_AMERICAN_SPANISH THEN 4
         ELSE 5
    ELSE 4

\* The wildcard amount match_distance_region adds when the regions differ.
RegionWildcard(lang1, lang2, lang_region1, lang_region2) ==
    IF lang1 = languages.PORTUGUESE /\ lang2 = languages.PORTUGUESE
    THEN IF lang_region1 = languages.BRAZILIAN_PORTUGUESE
            \/ lang_region2 = languages.BRAZILIAN_PORTUGUESE THEN 8
         ELSE IF lang_region1 = languages.AMERICAN_PORTUGUESE
                 \/ lang_region2 = languages.AMERICAN_PORTUGUESE THEN 8
         ELSE 4
    ELSE IF lang1 = languages.ENGLISH /\ lang2 = languages.ENGLISH
    THEN IF lang_region1 = languages.AMERICAN_ENGLISH
            \/ lang_region2 = languages.AMERICAN_ENGLISH THEN 6
         ELSE IF lang_region1 = languages.BRITISH_ENGLISH
                 \/ lang_region2 = languages.BRITISH_ENGLISH THEN 4
         ELSE IF lang_region1 = languages.INTERNATIONAL_ENGLISH
                 \/ lang_region2 = languages.INTERNATIONAL_ENGLISH THEN 4
         ELSE 5
    ELSE IF lang1 = languages.SPANISH /\ lang2 = languages.SPANISH
    THEN IF lang_region1 = languages.EUROPEAN_SPANISH
            \/ lang_region2 = languages.EUROPEAN_SPANISH THEN 8
         ELSE IF lang_region1 = languages.LATIN_AMERICAN_SPANISH
                 \/ lang_region2 = languages.LATIN_AMERICAN_SPANISH THEN 4
         ELSE 5
    ELSE 4

match_distance_region(self, code2) ==
    LET pair == language_pair_bytes(self, code2)
        lang1 == BitAnd(self, LANGUAGE_EXT_MASK)
        lang2 == BitAnd(code2, LANGUAGE_EXT_MASK)
        region1 == BitAnd(self, REGION_MASK)
        region2 == BitAnd(code2, REGION_MASK)
    IN IF self = code2 THEN 0
       ELSE IF pair \in DOMAIN static_maps.MATCH_DISTANCE THEN static_maps.MATCH_DISTANCE[pair]
       ELSE IF region1 = region2 THEN match_distance_script(self, code2)
       ELSE RegionWildcard(lang1, lang2, BitOr(lang1, region1), BitOr(lang2, region2))
            + match_distance_script(self, code2)

match_distance(self, code2) ==
    TheOne({match_distance_region(max1, max2) :
               max1 \in {maximize(self)}, max2 \in {maximize(code2)}})

-----------------------------------------------------------------------------
(* language-codes: the matching API                                        *)

\* The for loop of find_match from element i on; the result is the pair
\* <<best_match, best_distance>>.
RECURSIVE FindMatchFrom(_, _, _, _, _, _, _, _)
FindMatchFrom(self, rank_penalty, cutoff, possibilities, i, rank_cost, best, best_cost) ==
    IF i > Len(possibilities) THEN best
    ELSE TheOne({
         LET cost == distance + rank_cost
             better == distance < cutoff /\ cost < best_cost
             best1 == IF better THEN <<possibilities[i], distance>> ELSE best
             best_cost1 == IF better THEN cost ELSE best_cost
         IN IF distance = 0 THEN <<possibilities[i], 0>>
            ELSE IF rank_cost + rank_penalty >= best_cost1 THEN best1
            ELSE FindMatchFrom(self, rank_penalty, cutoff, possibilities, i + 1,
                               rank_cost + rank_penalty, best1, best_cost1)
         : distance \in {match_distance(self, possibilities[i])}})

find_match(self, rank_penalty, cutoff, possibilities) ==
    FindMatchFrom(self, rank_penalty, cutoff, possibilities, 1, 0,
                  <<languages.UNKNOWN, 1000>>, 1000)

match_desired_with_cutoff(self, cutoff, candidates) == find_match(self, 5, cutoff, candidates)

match_desired(self, candidates) == find_match(self, 5, 25, candidates)

match_supported_with_cutoff(self, cutoff, codes) ==
    IF \E i \in DOMAIN codes : codes[i] = self THEN <<self, 0>>
    ELSE find_match(self, 0, cutoff, codes)

match_supported(self, codes) == find_match(self, 0, 25, codes)

\* The for loop of match_lists_with_cutoff from element i of desired on; the
\* result is the pair <<best_match, best_distance>>.
RECURSIVE MatchListsFrom(_, _, _, _, _, _, _, _)
MatchListsFrom(rank_penalty, cutoff, desired_codes, supported, i, rank_cost, best, best_cost) ==
    IF i > Len(desired_codes) THEN best
    ELSE TheOne({
         LET distance == m[2]
             cost == distance + rank_cost
             better == distance < cutoff /\ cost < best_cost
             best1 == IF better THEN <<desired_codes[i], distance>> ELSE best
             best_cost1 == IF better THEN cost ELSE best_cost
         IN IF rank_cost + rank_penalty >= best_cost1 THEN best1
            ELSE MatchListsFrom(rank_penalty, cutoff, desired_codes, supported, i + 1,
                                rank_cost + rank_penalty, best1, best_cost1)
         : m \in {match_supported_with_cutoff(desired_codes[i], cutoff, supported)}})

match_lists_with_cutoff(rank_penalty, cutoff, desired_codes, supported) ==
    MatchListsFrom(rank_penalty, cutoff, desired_codes, supported, 1, 0,
                   <<languages.UNKNOWN, 1000>>, 1000)

-----------------------------------------------------------------------------
(* The inputs the model explores                                           *)

\* The number of subtags after the first in a freely combined input.
MaxRest == 2
\* The number of maximize / minimize calls applied in a row.
MaxOps == 2
\* The length of the list of codes of a matching call.
MaxList == 3

\* First subtags and later subtags that are combined freely: well-formed
\* ones of every kind, and malformed ones (empty, too long, digits among
\* letters, numeric, a character outside [-0-9A-Za-z_]).
FirstSubtags ==
    {
      <<"e", "n">>, <<"Z", "H">>, <<"u", "n", "d">>, <<"i", "n", "e">>,
      <<"x">>, <<>>, <<"a", "b", "c", "d">>, <<"a", "1">>,
      <<"4", "0", "0", "0", "0">>, <<"0">>
    }
RestSubtags ==
    {
      <<"p", "r", "o">>, <<"c", "m", "n">>, <<"y", "u", "e">>,
      <<"H", "a", "n", "t">>, <<"l", "a", "t", "n">>, <<"U", "S">>,
      <<"t", "w">>, <<"0", "0", "0">>, <<"4", "1", "9">>, <<"1", "a", "b">>,
      <<"1", "9", "9", "6">>, <<"f", "o", "n", "i", "p", "a">>, <<"u">>,
      <<"e", "!">>, <<>>
    }
Separators == {"-", "_"}

RECURSIVE SubtagLists(_)
SubtagLists(n) ==
    IF n = 0 THEN {<<>>}
    ELSE SubtagLists(n - 1) \cup
         {Append(l, t) : l \in {m \in SubtagLists(n - 1) : Len(m) = n - 1}, t \in RestSubtags}

FreeInputs ==
    {join(<<f>> \o l, sep) : f \in FirstSubtags, l \in SubtagLists(MaxRest), sep \in Separators}

\* Tags of the shape language [extlang ...] [script] [region].
ShapedLanguages == {
      <<"e", "n">>, <<"U", "n", "d">>, <<"i", "n", "e">>
    }
ShapedExtlangs == {
      <<>>, <<<<"c", "m", "n">>>>, <<<<"p", "r", "o">>>>,
      <<<<"c", "m", "n">>, <<"P", "R", "O">>>>,
      <<<<"p", "r", "o">>, <<"c", "m", "n">>>>,
      <<<<"c", "m", "n">>, <<"y", "u", "e">>>>,
      <<<<"c", "m", "n">>, <<"y", "u", "e">>, <<"p", "r", "o">>>>,
      <<<<"c", "m", "n">>, <<"y", "u", "e">>, <<"p", "r", "o">>, <<"h", "a", "k">>>>
    }
ShapedScripts == {<<>>, <<<<"h", "A", "N", "T">>>>}
ShapedRegions == {<<>>, <<<<"t", "w">>>>, <<<<"0", "0", "0">>>>, <<<<"4", "1", "9">>>>}
\* What may follow: a variant, a second variant, an extension and its payload.
ShapedTails == {
      <<>>, <<<<"f", "o", "n", "i", "p", "a">>>>,
      <<<<"1", "9", "9", "6">>, <<"x">>, <<"e", "!">>>>,
      <<<<"f", "o", "n", "i", "p", "a">>, <<"1", "9", "9", "6">>>>
    }
ShapedInputs ==
    {join(<<l>> \o e \o sc \o r \o t, "-") :
        l \in ShapedLanguages, e \in ShapedExtlangs, sc \in ShapedScripts,
        r \in ShapedRegions, t \in ShapedTails}

Inputs == FreeInputs \cup ShapedInputs

\* The subtags handed to encode_subtag: every string of one to MaxLetters of
\* these letters, some subtags of tags, and digit strings; the lengths are
\* those parse_lowercase_tag passes (region 2, language and extlang 3,
\* script 4).
MaxLetters == 3
CodecLetters == {"a", "z"}
RECURSIVE LetterStrings(_)
LetterStrings(n) ==
    IF n = 0 THEN {<<>>}
    ELSE LetterStrings(n - 1) \cup
         {Append(l, c) : l \in {m \in LetterStrings(n - 1) : Len(m) = n - 1}, c \in CodecLetters}
LetterSubtags ==
    (LetterStrings(MaxLetters) \ {<<>>})
    \cup {<<"e", "n", "m">>, <<"e", "s">>, <<"e", "n">>, <<"h", "a", "n", "t">>,
          <<"l", "a", "t", "n">>, <<"a", "a", "a", "a">>, <<"z", "z", "z", "z">>}
DigitSubtags ==
    {<<"0">>, <<"0", "0", "0">>, <<"1">>, <<"1", "2">>, <<"0", "4", "2">>,
     <<"4", "1", "9">>, <<"9", "9", "9">>, <<"0", "9", "9", "9">>, <<"0", "0", "7">>}
CodecSubtags == LetterSubtags \cup DigitSubtags
Lengths == {2, 3, 4}

\* The tags handed to LanguageCode::parse: a language, aliased or not, then
\* an optional script and an optional region, and tags that are aliases as
\* a whole or that encode_tag rejects.
LangLanguages == {<<"s", "h">>, <<"m", "o">>, <<"f", "r", "a">>, <<"f", "i">>, <<"e", "n">>, <<"u", "n", "d">>, <<"i">>, <<"S", "h">>}
LangScripts == {<<>>, <<<<"C", "y", "r", "l">>>>, <<<<"z", "Z", "Z", "Z">>>>, <<<<"Q", "a", "a", "i">>>>, <<<<"l", "a", "t", "n">>>>}
LangRegions == {<<>>, <<<<"M", "E">>>>, <<<<"z", "Z">>>>, <<<<"Q", "U">>>>, <<<<"8", "4", "0">>>>, <<<<"d", "d">>>>, <<<<"0", "0", "0">>>>, <<<<"4", "1", "9">>>>}
LangInputs ==
    {join(<<l>> \o sc \o r, sep) :
        l \in LangLanguages, sc \in LangScripts, r \in LangRegions, sep \in Separators}
    \cup {<<"s", "g", "n", "-", "b", "e", "-", "f", "r">>, <<"S", "G", "N", "_", "B", "E", "_", "F", "R">>, <<"i", "-", "h", "a", "k">>, <<"s", "h", "-", "p", "r", "o", "-", "M", "E">>, <<"s", "h", "-", "c", "m", "n">>, <<"a", "1">>, <<"s", "h", "-", "e", "!">>, <<>>}

\* The codes the LanguageCode operations are applied to, as the parser
\* encodes these tags.
CodeTags ==
    {
      <<"u", "n", "d">>, <<"e", "n">>, <<"e", "n", "-", "U", "S">>,
      <<"e", "n", "-", "G", "B">>, <<"e", "n", "-", "L", "a", "t", "n">>,
      <<"e", "n", "-", "L", "a", "t", "n", "-", "U", "S">>,
      <<"e", "n", "-", "S", "h", "a", "w">>,
      <<"e", "n", "-", "S", "h", "a", "w", "-", "U", "S">>, <<"j", "a">>,
      <<"j", "a", "-", "J", "P">>, <<"j", "a", "-", "U", "S">>, <<"z", "h">>,
      <<"z", "h", "-", "H", "a", "n", "t">>, <<"z", "h", "-", "T", "W">>,
      <<"z", "h", "-", "H", "a", "n", "t", "-", "T", "W">>,
      <<"z", "h", "-", "H", "a", "n", "s">>,
      <<"z", "h", "-", "L", "a", "t", "n", "-", "U", "S">>, <<"p", "t">>,
      <<"p", "t", "-", "P", "T">>,
      <<"p", "t", "-", "L", "a", "t", "n", "-", "P", "T">>,
      <<"v", "a", "i">>, <<"u", "n", "d", "-", "V", "a", "i", "i">>,
      <<"u", "n", "d", "-", "0", "1", "4">>,
      <<"u", "n", "d", "-", "p", "r", "o">>,
      <<"i", "n", "e", "-", "p", "r", "o">>,
      <<"r", "o", "a", "-", "o", "p", "t">>, <<"n", "b">>, <<"n", "o">>,
      <<"t", "a">>, <<"e", "s", "-", "4", "1", "9">>,
      <<"4", "0", "0", "0", "0", "-", "L", "a", "t", "n", "-", "U", "S">>,
      <<"7", "2", "3", "2", "-", "L", "a", "t", "n", "-", "U", "S">>,
      <<"4", "0", "0", "0", "0">>, <<"x">>, <<>>,
      <<"j", "a", "-", "H", "a", "n", "t", "-", "T", "W">>,
      <<"e", "n", "-", "I", "N">>, <<"e", "n", "-", "A", "U">>, <<"e", "n", "-", "0", "0", "1">>,
      <<"p", "t", "-", "B", "R">>, <<"p", "t", "-", "U", "S">>, <<"p", "t", "-", "A", "O">>,
      <<"e", "s", "-", "E", "S">>, <<"e", "s", "-", "M", "X">>, <<"e", "s", "-", "A", "R">>,
      <<"f", "r", "-", "C", "A">>, <<"f", "r", "-", "F", "R">>
    }
\* Codes made by LanguageCode::new from a u64 that no tag encodes: bit 63
\* alone, 'en' with bit 31, and all ones.
RawCodes == {U64Hex(32768, 0, 0, 0), U64Hex(6568, 0, 32768, 0), Bits64}
Codes == {parse_tag(t, FALSE).val : t \in CodeTags} \cup RawCodes

\* The codes of the matching calls.
MatchTags ==
    {
      <<"e", "n">>, <<"e", "n", "-", "L", "a", "t", "n", "-", "U", "S">>,
      <<"e", "n", "-", "G", "B">>, <<"z", "h", "-", "H", "a", "n", "t">>,
      <<"z", "h", "-", "T", "W">>, <<"j", "a">>, <<"z", "h">>
    }
MatchCodes == {encode_tag(t) : t \in MatchTags}
RECURSIVE CodeLists(_)
CodeLists(n) ==
    IF n = 0 THEN {<<>>}
    ELSE CodeLists(n - 1) \cup
         {Append(l, c) : l \in {m \in CodeLists(n - 1) : Len(m) = n - 1}, c \in MatchCodes}
Cutoffs == {0, 5, 25}
\* The length of each list of a match_lists_with_cutoff call, and its rank
\* penalties.
MaxLists == 2
RankPenalties == {0, 5}

-----------------------------------------------------------------------------
(* The state machine                                                       *)

NoResult == [kind |-> "none", val |-> {}, err |-> <<>>, seen |-> {}]
NoString == [kind |-> "none", str |-> <<>>]
NoMatch == <<{}, -1>>

IdleCodec ==
    /\ subtag_in = <<>> /\ other_in = <<>> /\ length_in = 0 /\ encoded = <<>> /\ decoded = <<>>
IdleParse ==
    /\ build = "debug" /\ tag_in = <<>> /\ parsed = NoResult /\ unparsed = NoString
IdleCodes ==
    /\ code_x = {} /\ code_y = {} /\ ops = <<>> /\ code_b = {}
    /\ broadened = <<>> /\ dist = -1
IdleMatch ==
    /\ want = {} /\ desired = <<>> /\ have = <<>> /\ cut = 0 /\ matched = NoMatch

\* parse_tag and unparse_tag on one input.
InitParse ==
    /\ NoTables
    /\ pc = "start"
    /\ build \in {"debug", "release"}
    /\ tag_in \in Inputs
    /\ parsed = NoResult
    /\ unparsed = NoString
    /\ IdleCodes /\ IdleMatch /\ IdleCodec

ParseTag ==
    /\ pc = "start"
    /\ parsed' = parse_tag(tag_in, build = "debug")
    /\ pc' = "parsed"
    /\ UNCHANGED <<build, tag_in, unparsed, code_x, code_y, ops, code_b, broadened, dist,
                   want, desired, have, cut, matched,
                   tables, codec>>

UnparseTag ==
    /\ pc = "parsed"
    /\ parsed.kind = "Ok"
    /\ unparsed' = unparse_tag(parsed.val)
    /\ pc' = "unparsed"
    /\ UNCHANGED <<build, tag_in, parsed, code_x, code_y, ops, code_b, broadened, dist,
                   want, desired, have, cut, matched,
                   tables, codec>>

NextParse == ParseTag \/ UnparseTag
SpecParse == InitParse /\ [][NextParse]_vars

\* maximize, minimize and match_distance on codes.
InitCodes ==
    /\ InitTables
    /\ pc = "codes"
    /\ code_x \in Codes
    /\ code_y = code_x
    /\ ops = <<>>
    /\ code_b \in Codes
    /\ broadened = <<>>
    /\ dist = -1
    /\ IdleParse /\ IdleMatch /\ IdleCodec

Maximize ==
    /\ pc = "codes"
    /\ Len(ops) < MaxOps
    /\ code_y # Panicked
    /\ code_y' = maximize(code_y)
    /\ ops' = Append(ops, "maximize")
    /\ UNCHANGED <<pc, build, tag_in, parsed, unparsed, code_x, code_b, broadened, dist,
                   want, desired, have, cut, matched,
                   tables, codec>>

Minimize ==
    /\ pc = "codes"
    /\ Len(ops) < MaxOps
    /\ code_y # Panicked
    /\ code_y' = minimize(code_y)
    /\ ops' = Append(ops, "minimize")
    /\ UNCHANGED <<pc, build, tag_in, parsed, unparsed, code_x, code_b, broadened, dist,
                   want, desired, have, cut, matched,
                   tables, codec>>

MatchDistance ==
    /\ pc = "codes"
    /\ ops = <<>>
    /\ dist' = match_distance(code_x, code_b)
    /\ pc' = "distance"
    /\ UNCHANGED <<build, tag_in, parsed, unparsed, code_x, code_y, ops, code_b, broadened,
                   want, desired, have, cut, matched,
                   tables, codec>>

Broaden ==
    /\ pc = "codes"
    /\ ops = <<>>
    /\ broadened' = broaden(code_x)
    /\ pc' = "broaden"
    /\ UNCHANGED <<build, tag_in, parsed, unparsed, code_x, code_y, ops, code_b, dist,
                   want, desired, have, cut, matched,
                   tables, codec>>

\* update_code(code_x, code_b); code_y is the result.
UpdateCode ==
    /\ pc = "codes"
    /\ ops = <<>>
    /\ code_y' = update_code(code_x, code_b)
    /\ pc' = "update_code"
    /\ UNCHANGED <<build, tag_in, parsed, unparsed, code_x, ops, code_b, broadened, dist,
                   want, desired, have, cut, matched,
                   tables, codec>>

NextCodes == Maximize \/ Minimize \/ MatchDistance \/ Broaden \/ UpdateCode
SpecCodes == InitCodes /\ [][NextCodes]_vars

\* The matching calls on a desired code and a list of supported codes.
InitMatch ==
    /\ InitTables
    /\ pc = "match"
    /\ want \in MatchCodes
    /\ desired = <<>>
    /\ have \in CodeLists(MaxList)
    /\ cut = 0
    /\ matched = NoMatch
    /\ IdleParse /\ IdleCodes /\ IdleCodec

MatchSupported ==
    /\ pc = "match"
    /\ matched' = match_supported(want, have)
    /\ pc' = "match_supported"
    /\ UNCHANGED <<build, tag_in, parsed, unparsed, code_x, code_y, ops, code_b, broadened, dist,
                   want, desired, have, cut,
                   tables, codec>>

MatchSupportedWithCutoff ==
    /\ pc = "match"
    /\ \E c \in Cutoffs :
        /\ cut' = c
        /\ matched' = match_supported_with_cutoff(want, c, have)
    /\ pc' = "match_supported_with_cutoff"
    /\ UNCHANGED <<build, tag_in, parsed, unparsed, code_x, code_y, ops, code_b, broadened, dist,
                   want, desired, have,
                   tables, codec>>

MatchDesired ==
    /\ pc = "match"
    /\ cut' = 25
    /\ matched' = match_desired(want, have)
    /\ pc' = "match_desired"
    /\ UNCHANGED <<build, tag_in, parsed, unparsed, code_x, code_y, ops, code_b, broadened, dist,
                   want, desired, have,
                   tables, codec>>

MatchDesiredWithCutoff ==
    /\ pc = "match"
    /\ \E c \in Cutoffs :
        /\ cut' = c
        /\ matched' = match_desired_with_cutoff(want, c, have)
    /\ pc' = "match_desired_with_cutoff"
    /\ UNCHANGED <<build, tag_in, parsed, unparsed, code_x, code_y, ops, code_b, broadened, dist,
                   want, desired, have,
                   tables, codec>>

NextMatch ==
    \/ MatchSupported \/ MatchSupportedWithCutoff
    \/ MatchDesired \/ MatchDesiredWithCutoff
SpecMatch == InitMatch /\ [][NextMatch]_vars

\* LanguageCode::parse and to_string on one input.
InitLang ==
    /\ InitTables
    /\ pc = "lang"
    /\ build \in {"debug", "release"}
    /\ tag_in \in LangInputs
    /\ parsed = NoResult
    /\ unparsed = NoString
    /\ IdleCodes /\ IdleMatch /\ IdleCodec

Parse ==
    /\ pc = "lang"
    /\ parsed' = parse(tag_in, build = "debug")
    /\ pc' = "lang_parsed"
    /\ UNCHANGED <<build, tag_in, unparsed, code_x, code_y, ops, code_b, broadened, dist,
                   want, desired, have, cut, matched,
                   tables, codec>>

CodeToString ==
    /\ pc = "lang_parsed"
    /\ parsed.kind = "Ok"
    /\ unparsed' = decode_tag(parsed.val)
    /\ pc' = "lang_string"
    /\ UNCHANGED <<build, tag_in, parsed, code_x, code_y, ops, code_b, broadened, dist,
                   want, desired, have, cut, matched,
                   tables, codec>>

NextLang == Parse \/ CodeToString
SpecLang == InitLang /\ [][NextLang]_vars

\* match_lists_with_cutoff on a list of desired and a list of supported codes.
InitLists ==
    /\ InitTables
    /\ pc = "lists"
    /\ want = {}
    /\ desired \in CodeLists(MaxLists)
    /\ have \in CodeLists(MaxLists)
    /\ cut = 0
    /\ matched = NoMatch
    /\ IdleParse /\ IdleCodes /\ IdleCodec

MatchLists ==
    /\ pc = "lists"
    /\ \E rank_penalty \in RankPenalties, c \in Cutoffs :
        /\ cut' = c
        /\ matched' = match_lists_with_cutoff(rank_penalty, c, desired, have)
    /\ pc' = "match_lists"
    /\ UNCHANGED <<build, tag_in, parsed, unparsed, code_x, code_y, ops, code_b, broadened, dist,
                   want, desired, have,
                   tables, codec>>

NextLists == MatchLists
SpecLists == InitLists /\ [][NextLists]_vars

\* encode_subtag on two subtags with one length, then decode_subtag.
InitCodec ==
    /\ NoTables
    /\ pc = "codec"
    /\ build \in {"debug", "release"}
    /\ subtag_in \in CodecSubtags
    /\ other_in \in LetterSubtags
    /\ length_in \in Lengths
    /\ encoded = <<>>
    /\ decoded = <<>>
    /\ tag_in = <<>> /\ parsed = NoResult /\ unparsed = NoString
    /\ IdleCodes /\ IdleMatch

EncodeSubtag ==
    /\ pc = "codec"
    /\ encoded' = <<encode_subtag(subtag_in, length_in, build = "debug"),
                    encode_subtag(other_in, length_in, build = "debug")>>
    /\ pc' = "encoded"
    /\ UNCHANGED <<build, tag_in, parsed, unparsed, code_x, code_y, ops, code_b, broadened,
                   dist, want, desired, have, cut, matched, tables,
                   subtag_in, other_in, length_in, decoded>>

\* decode_subtag on the value encode_subtag returned, when it returned one
\* that fits a field (at most 31 bits).
DecodeSubtag ==
    /\ pc = "encoded"
    /\ ~encoded[1].panic
    /\ encoded[1].val \subseteq 0..30
    /\ decoded' = Some(decode_subtag(encoded[1].val))
    /\ pc' = "decoded"
    /\ UNCHANGED <<build, tag_in, parsed, unparsed, code_x, code_y, ops, code_b, broadened,
                   dist, want, desired, have, cut, matched, tables,
                   subtag_in, other_in, length_in, encoded>>

NextCodec == EncodeSubtag \/ DecodeSubtag
SpecCodec == InitCodec /\ [][NextCodec]_vars

\* Every operation, on every kind of input.
Init == InitParse \/ InitLang \/ InitCodes \/ InitMatch \/ InitLists \/ InitCodec
Next == NextParse \/ NextLang \/ NextCodes \/ NextMatch \/ NextLists \/ NextCodec
Spec == Init /\ [][Next]_vars

-----------------------------------------------------------------------------
(* Well-formed tags and their canonical form                               *)

IsAlpha(t) == \A i \in 1..Len(t) : t[i] \in LowerChars \cup UpperChars
IsDigits(t) == \A i \in 1..Len(t) : t[i] \in DigitChars
LanguageShape(t) == Len(t) \in 2..3 /\ IsAlpha(t)
ExtlangShape(t) == Len(t) = 3 /\ IsAlpha(t)
ScriptShape(t) == Len(t) = 4 /\ IsAlpha(t)
RegionShape(t) == (Len(t) = 2 /\ IsAlpha(t)) \/ (Len(t) = 3 /\ IsDigits(t))

\* The subtags of a tag written with hyphens.
Subtags(tag) == split(tag, "-")
\* How many extlang subtags follow the language.
ExtlangCount(toks) ==
    Cardinality({i \in 2..Len(toks) : \A j \in 2..i : ExtlangShape(toks[j])})
Extlangs(toks) == SubSeq(toks, 2, 1 + ExtlangCount(toks))
AfterExtlangs(toks) == SubSeq(toks, 2 + ExtlangCount(toks), Len(toks))

\* language ["-" extlang]*3 ["-" script] ["-" region], nothing else.
WellFormed(tag) ==
    LET toks == Subtags(tag)
        rest == AfterExtlangs(toks)
    IN /\ LanguageShape(toks[1])
       /\ ExtlangCount(toks) <= 3
       /\ \/ rest = <<>>
          \/ Len(rest) = 1 /\ (ScriptShape(rest[1]) \/ RegionShape(rest[1]))
          \/ Len(rest) = 2 /\ ScriptShape(rest[1]) /\ RegionShape(rest[2])

TitleCase(t) == to_uppercase(SubSeq(t, 1, 1)) \o to_lowercase(SubSeq(t, 2, Len(t)))
CanonicalSubtag(t, i) ==
    IF i = 1 \/ ExtlangShape(t) THEN to_lowercase(t)
    ELSE IF ScriptShape(t) THEN TitleCase(t)
    ELSE to_uppercase(t)
\* Language and extlangs lowercase, script title-case, region uppercase.
Canonical(tag) ==
    LET toks == Subtags(tag)
    IN join([i \in 1..Len(toks) |-> CanonicalSubtag(toks[i], i)], "-")

\* The tags whose extlangs the code keeps all of: at most one extlang
\* other than "pro", then at most one "pro"; and whose region is not 000.
PRO == <<"p", "r", "o">>
KeptExtlangs(tag) ==
    LET exts == to_lowercase(Extlangs(Subtags(tag)))
        lower == [i \in 1..Len(exts) |-> to_lowercase(exts[i])]
    IN \/ Len(lower) = 0
       \/ Len(lower) = 1
       \/ Len(lower) = 2 /\ lower[1] # PRO /\ lower[2] = PRO
NonZeroRegion(tag) ==
    LET toks == Subtags(tag) IN toks[Len(toks)] # <<"0", "0", "0">>

-----------------------------------------------------------------------------
(* Claims                                                                  *)

\* C1 as stated: for every well-formed tag made only of language, extlang,
\* script and region subtags, unparse_tag(parse_tag(s)) is the canonical
\* form of s.
C1_RoundTripEveryWellFormed ==
    (pc # "start" /\ WellFormed(tag_in)) =>
        /\ parsed.kind = "Ok"
        /\ pc = "unparsed" => unparsed = [kind |-> "Ok", str |-> Canonical(tag_in)]

\* C1, amended: the round trip gives the canonical form for every
\* well-formed tag that has at most one extlang other than "pro", followed
\* by at most one "pro", and whose region is not 000.
C1_RoundTrip ==
    (pc # "start" /\ WellFormed(tag_in) /\ KeptExtlangs(tag_in) /\ NonZeroRegion(tag_in)) =>
        /\ parsed.kind = "Ok"
        /\ pc = "unparsed" => unparsed = [kind |-> "Ok", str |-> Canonical(tag_in)]

\* A tag with an extlang, "pro", a script and a region, in mixed case, has
\* gone through parse_tag and unparse_tag.
C1_Witness ==
    /\ pc = "unparsed"
    /\ WellFormed(tag_in) /\ KeptExtlangs(tag_in) /\ NonZeroRegion(tag_in)
    /\ Len(Subtags(tag_in)) = 5
    /\ tag_in # Canonical(tag_in)

\* The first subtag parse_tag sees: after '_' -> '-' and lowercasing.
FirstSubtag(tag) == split(to_lowercase(replace(tag, "_", "-")), "-")[1]

\* C2 as stated: if desired is an element of supported, match_supported
\* returns (desired, 0), wherever desired stands in the list.
C2_ExactMatchPrecedence ==
    (pc = "match_supported" /\ \E i \in DOMAIN have : have[i] = want) =>
        matched = <<want, 0>>

\* C3 as stated: parsing the empty string returns ParseError, not a code.
C3_EmptyInputIsParseError ==
    (pc # "start" /\ tag_in = <<>>) => parsed.kind = "ParseError"

\* C4 as stated: parse_tag returns a code or one of the three errors for
\* every input, and never aborts.
C4_ParseIsTotal ==
    pc # "start" =>
        parsed.kind \in {"Ok", "InvalidCharacter", "SubtagFormatError", "ParseError"}

\* C5 as stated: the code returned for a first subtag 'i' or 'x' has
\* language bits that decode to 'mis', and unparses to 'mis'.
C5_MissingCodeIsMis ==
    (pc = "unparsed" /\ FirstSubtag(tag_in) \in {<<"i">>, <<"x">>}) =>
        /\ parsed.val = MISSING_CODE
        /\ decode_language(parsed.val) = <<"m", "i", "s">>
        /\ unparsed = [kind |-> "Ok", str |-> <<"m", "i", "s">>]

\* C6 as stated: when the parser succeeds, each of the language, script and
\* region fields is zero iff no subtag was consumed for it.
C6_FieldZeroIffAbsent ==
    (pc # "start" /\ parsed.kind = "Ok") =>
        /\ (BitAnd(parsed.val, LANGUAGE_MASK) = {}) <=> ("language" \notin parsed.seen)
        /\ (BitAnd(parsed.val, SCRIPT_MASK) = {}) <=> ("script" \notin parsed.seen)
        /\ (BitAnd(parsed.val, REGION_MASK) = {}) <=> ("region" \notin parsed.seen)

\* C7: maximize(maximize(x)) = maximize(x) for every code x on which
\* maximize returns.
C7_MaximizeIdempotent ==
    (ops = <<"maximize", "maximize">> /\ maximize(code_x) # Panicked) =>
        code_y = maximize(code_x)

\* Maximize ran twice on a code that it had to look up through broaden and
\* that it changed.
C7_Witness ==
    /\ ops = <<"maximize", "maximize">>
    /\ code_x \notin DOMAIN static_maps.LIKELY_SUBTAGS
    /\ code_y # code_x
    /\ code_y # Panicked

\* C8: minimize(minimize(x)) = minimize(x) for every code x.
C8_MinimizeIdempotent ==
    ops = <<"minimize", "minimize">> => code_y = minimize(code_x)

\* Minimize ran twice on a code that it shortened.
C8_Witness ==
    /\ ops = <<"minimize", "minimize">>
    /\ code_y # code_x
    /\ code_y # Panicked

\* C9: maximize(minimize(x)) = maximize(x) for every code x.
C9_MinMaxFixpoint ==
    ops = <<"minimize", "maximize">> => code_y = maximize(code_x)

\* Minimize shortened a code that was not maximal, and maximize ran on the
\* result.
C9_Witness ==
    /\ ops = <<"minimize", "maximize">>
    /\ minimize(code_x) # code_x
    /\ maximize(code_x) # code_x
    /\ code_y # Panicked

\* C10 as stated: match_distance(a, b) = 0 iff maximize(a) = maximize(b).
C10_ZeroIffMaximizedEqual ==
    pc = "distance" => ((dist = 0) <=> (maximize(code_x) = maximize(code_b)))


-----------------------------------------------------------------------------
(* Distance bounds                                                         *)

\* The maximized forms match_distance compares.
Max1 == maximize(code_x)
Max2 == maximize(code_b)

\* The two maximized codes differ in language, in script and in region.
DifferEverywhere ==
    /\ BitAnd(Max1, LANGUAGE_MASK) # BitAnd(Max2, LANGUAGE_MASK)
    /\ BitAnd(Max1, SCRIPT_MASK) # BitAnd(Max2, SCRIPT_MASK)
    /\ BitAnd(Max1, REGION_MASK) # BitAnd(Max2, REGION_MASK)

\* MATCH_DISTANCE has no entry for the pair at the region, the script or
\* the language level.
NoTableEntry ==
    LET ls == BitOr(LANGUAGE_EXT_MASK, SCRIPT_MASK)
    IN /\ language_pair_bytes(Max1, Max2) \notin DOMAIN static_maps.MATCH_DISTANCE
       /\ language_pair_bytes(BitAnd(Max1, ls), BitAnd(Max2, ls))
              \notin DOMAIN static_maps.MATCH_DISTANCE
       /\ language_pair_bytes(BitAnd(Max1, LANGUAGE_EXT_MASK),
                              BitAnd(Max2, LANGUAGE_EXT_MASK))
              \notin DOMAIN static_maps.MATCH_DISTANCE

\* The scripts are the Simplified / Traditional pair, in either direction.
ChineseScripts ==
    {BitAnd(Max1, SCRIPT_MASK), BitAnd(Max2, SCRIPT_MASK)} = {SIMPLIFIED, TRADITIONAL}

\* C11 as stated: 0 <= match_distance(a, b) <= 124 for all codes, and the
\* distance of a pair that differs in region, script and language with no
\* table entry at any level is exactly 124.
C11_DistanceBounds ==
    pc = "distance" =>
        /\ 0 <= dist /\ dist <= 124
        /\ (DifferEverywhere /\ NoTableEntry) => dist = 124

\* C11 amended: 0 <= match_distance(a, b) <= 124 for all codes; a pair that
\* differs in region, script and language with no table entry at any level
\* is at distance 124 unless its scripts are the Simplified / Traditional
\* pair, where the distance is 99 (Simplified desired) or 103 (Traditional
\* desired).
C11_DistanceBoundsAmended ==
    pc = "distance" =>
        /\ 0 <= dist /\ dist <= 124
        /\ (DifferEverywhere /\ NoTableEntry) =>
               dist = IF ~ChineseScripts THEN 124
                      ELSE IF BitAnd(Max1, SCRIPT_MASK) = SIMPLIFIED THEN 99
                      ELSE 103

\* A Simplified / Traditional pair of unrelated languages has been measured.
C11_Witness ==
    /\ pc = "distance"
    /\ DifferEverywhere /\ NoTableEntry /\ ChineseScripts
    /\ dist = 99

-----------------------------------------------------------------------------
(* The bit layout of a code                                                *)

\* The lowest bit of a field.
Low(bits) == CHOOSE i \in bits : \A j \in bits : i <= j

\* The masks select exactly these bits, and each shift moves a subtag to the
\* lowest bit of its field (the region is not shifted).
Layout(language, proto, extlang, script, region) ==
    /\ LANGUAGE_MASK = language /\ LANGUAGE_SHIFT = Low(language)
    /\ PROTO_MASK = proto
    /\ EXTLANG_MASK = extlang /\ EXTLANG_SHIFT = Low(extlang)
    /\ LANGUAGE_EXT_MASK = language \cup proto \cup extlang
    /\ SCRIPT_MASK = script /\ SCRIPT_SHIFT = Low(script)
    /\ REGION_MASK = region

\* A tag with every field has been encoded.
EveryFieldEncoded ==
    /\ pc = "parsed" /\ parsed.kind = "Ok"
    /\ parsed.seen = {"language", "extlang", "script", "region"}
    /\ \A mask \in {LANGUAGE_MASK, PROTO_MASK, EXTLANG_MASK, SCRIPT_MASK, REGION_MASK} :
           BitAnd(parsed.val, mask) # {}

\* C12 as stated: the code holds the language in bits 63-49, the proto flag
\* in bit 48, the extlang in bits 47-32, the script in bits 31-11 and the
\* region in bits 10-0, and the masks and shifts select exactly these bits.
C12_BitLayout ==
    EveryFieldEncoded => Layout(49..63, {48}, 32..47, 11..31, 0..10)

\* C12 amended: the language is in bits 62-48 (15 bits), the proto flag in
\* bit 47, the extlang in bits 46-32 (15 bits), the script in bits 30-11
\* (20 bits) and the region in bits 10-0 (11 bits); bits 63 and 31 belong to
\* no field.  The decoder reads the language and the region from these bits.
C12_BitLayoutAmended ==
    EveryFieldEncoded =>
        /\ Layout(48..62, {47}, 32..46, 11..30, 0..10)
        /\ decode_language(parsed.val)
              = Unwrap(decode_subtag(Shr(BitAnd(parsed.val, 48..62), 48)))
        /\ decode_region(parsed.val)
              = Some(to_uppercase(Unwrap(decode_subtag(BitAnd(parsed.val, 0..10)))))

\* en-cmn-pro-Hant-TW, or another tag with every field, has been encoded.
C12_Witness == EveryFieldEncoded

-----------------------------------------------------------------------------
(* LanguageCode::parse: aliases                                            *)

\* LanguageCode::parse returned a code that it built from the encoded tag e
\* (no whole-tag alias applied) and the language of e has an alias.
LanguageAliased(e) ==
    /\ pc = "lang_parsed" /\ parsed.kind = "Ok"
    /\ to_lowercase(replace(tag_in, "_", "-")) \notin DOMAIN static_maps.TAG_REPLACE
    /\ BitAnd(e, LANGUAGE_MASK) \in DOMAIN static_maps.LANG_REPLACE

\* The field of the caller's code when the caller supplied one, the field
\* of the alias otherwise.
CallerOrAlias(e, mask) ==
    IF BitAnd(e, mask) # {} THEN BitAnd(e, mask)
    ELSE BitAnd(static_maps.LANG_REPLACE[BitAnd(e, LANGUAGE_MASK)], mask)

\* C13: when the language of the parsed code is a key of LANG_REPLACE, the
\* result has the language and extlang of the alias value, and for script
\* and region the caller's value when the caller supplied one and the alias
\* value's otherwise (before the later script and region substitutions of
\* parse, which then apply to the merged value).
C13_AliasMerge ==
    \A e \in {parse_tag(tag_in, build = "debug").val} :
        LanguageAliased(e) =>
            /\ BitAnd(parsed.val, LANGUAGE_EXT_MASK)
                  = BitAnd(static_maps.LANG_REPLACE[BitAnd(e, LANGUAGE_MASK)],
                           LANGUAGE_EXT_MASK)
            /\ BitAnd(parsed.val, SCRIPT_MASK)
                  = BitAnd(ReplaceScript(CallerOrAlias(e, SCRIPT_MASK)), SCRIPT_MASK)
            /\ BitAnd(parsed.val, REGION_MASK)
                  = BitAnd(ReplaceRegion(CallerOrAlias(e, REGION_MASK)), REGION_MASK)

\* An aliased language came with a script of its own, or with a region and
\* no script (sh-Cyrl, sh-ME), and the alias value has a script.
C13_Witness ==
    \E e \in {parse_tag(tag_in, build = "debug").val} :
        /\ LanguageAliased(e)
        /\ BitAnd(static_maps.LANG_REPLACE[BitAnd(e, LANGUAGE_MASK)], SCRIPT_MASK) # {}
        /\ BitAnd(e, REGION_MASK) # {}
        /\ BitAnd(e, SCRIPT_MASK) = {}
        /\ BitAnd(parsed.val, SCRIPT_MASK) # {}
        /\ BitAnd(parsed.val, REGION_MASK) = BitAnd(e, REGION_MASK)

\* C14 as stated: parse("fi-zZZZ-zZ") succeeds and its string is "fi"; the
\* tokens zzzz and zz leave script and region absent.
C14_UnknownScriptAndRegionAbsent ==
    (pc # "lang" /\ tag_in = <<"f", "i", "-", "z", "Z", "Z", "Z", "-", "z", "Z">>) =>
        /\ parsed.kind = "Ok"
        /\ BitAnd(parsed.val, SCRIPT_MASK) = {}
        /\ BitAnd(parsed.val, REGION_MASK) = {}
        /\ pc = "lang_string" => unparsed.str = <<"f", "i">>

-----------------------------------------------------------------------------
(* match_desired                                                           *)

\* The distances from the desired code to each code of the list.
Distances == [i \in DOMAIN have |-> match_distance(want, have[i])]

\* The indices of the candidates whose distance is below the cutoff.
BelowCutoff(d) == {i \in DOMAIN d : d[i] < cut}

\* The lowest index among those of least distance + 5 * position.
LeastCost(d) ==
    CHOOSE i \in BelowCutoff(d) :
        \A j \in BelowCutoff(d) :
            \/ d[i] + 5 * (i - 1) < d[j] + 5 * (j - 1)
            \/ d[i] + 5 * (i - 1) = d[j] + 5 * (j - 1) /\ i <= j

\* match_desired or match_desired_with_cutoff has returned.
DesiredMatched == pc \in {"match_desired", "match_desired_with_cutoff"}

\* C15 as stated: match_desired returns the lowest-index candidate of least
\* distance + 5 * index among the candidates whose distance is below the
\* cutoff, with its distance, and (UNKNOWN, 1000) when no candidate is
\* below the cutoff; the early exit never changes this.
C15_MatchDesiredIsLeastCost ==
    DesiredMatched =>
        \A d \in {Distances} :
            matched = IF BelowCutoff(d) = {} THEN <<languages.UNKNOWN, 1000>>
                      ELSE <<have[LeastCost(d)], d[LeastCost(d)]>>

-----------------------------------------------------------------------------
(* match_lists_with_cutoff                                                 *)

\* C16 as stated: the code match_lists_with_cutoff returns is UNKNOWN or an
\* element of the supported list.
C16_MatchListsSelectsSupported ==
    pc = "match_lists" =>
        \/ matched[1] = languages.UNKNOWN
        \/ matched[1] \in Range(have)

-----------------------------------------------------------------------------
(* maximize, minimize, broaden, update                                     *)

\* The three regions update treats separately.
UpdateRegions == {LANGUAGE_EXT_MASK, SCRIPT_MASK, REGION_MASK}

\* Language, script and region are all nonzero.
Complete(code) ==
    \A mask \in {LANGUAGE_MASK, SCRIPT_MASK, REGION_MASK} : BitAnd(code, mask) # {}

\* The elements of a sequence of codes that are keys of LIKELY_SUBTAGS.
LikelyKeys(codes) == {i \in DOMAIN codes : codes[i] \in DOMAIN static_maps.LIKELY_SUBTAGS}

\* maximize was the first operation applied to code_x; code_y is its result.
Maximized == ops # <<>> /\ ops[1] = "maximize" /\ Len(ops) = 1

\* C17: maximize returns a complete code unchanged, else the LIKELY_SUBTAGS
\* value of the code if it is a key, else the LIKELY_SUBTAGS value of the
\* first key in broaden order with the code laid over it by update, so that
\* there every update region that is nonzero in the code is the same in the
\* result (the value of a key itself may differ from the key: und-014 gives
\* sw-Latn-TZ).
C17_MaximizeCases ==
    Maximized =>
        /\ code_y = IF Complete(code_x) THEN code_x
                    ELSE IF code_x \in DOMAIN static_maps.LIKELY_SUBTAGS
                    THEN static_maps.LIKELY_SUBTAGS[code_x]
                    ELSE LET b == broaden(code_x)
                             first == CHOOSE i \in LikelyKeys(b) :
                                          \A j \in LikelyKeys(b) : i <= j
                         IN update_code(static_maps.LIKELY_SUBTAGS[b[first]], code_x)
        /\ code_x \notin DOMAIN static_maps.LIKELY_SUBTAGS =>
               \A mask \in UpdateRegions :
                   BitAnd(code_x, mask) # {} => BitAnd(code_y, mask) = BitAnd(code_x, mask)

\* A code that is no key and not complete was maximized from a broader key
\* that is not the first element of broaden, and a field of the likely value
\* was overridden (ja-US gives ja-Jpan-US from ja -> ja-Jpan-JP).
C17_Witness ==
    /\ Maximized
    /\ ~Complete(code_x)
    /\ code_x \notin DOMAIN static_maps.LIKELY_SUBTAGS
    /\ 1 \notin LikelyKeys(broaden(code_x))
    /\ \E i \in LikelyKeys(broaden(code_x)) :
           static_maps.LIKELY_SUBTAGS[broaden(code_x)[i]] # code_y

\* minimize was the first operation applied to code_x; code_y is its result.
Minimized == ops # <<>> /\ ops[1] = "minimize" /\ Len(ops) = 1

\* The narrowings of a code in the order minimize tries them.
Narrowings(code) ==
    <<BitAnd(code, LANGUAGE_MASK),
      BitAnd(code, BitOr(LANGUAGE_MASK, SCRIPT_MASK)),
      BitAnd(code, BitOr(LANGUAGE_MASK, REGION_MASK))>>

\* The narrowings whose maximized form is that of the code.
SameMaximum(code) ==
    {i \in 1..3 : maximize(Narrowings(code)[i]) = maximize(code)}

\* C18: minimize returns the first of code & LANGUAGE, code & (LANGUAGE |
\* SCRIPT), code & (LANGUAGE | REGION) whose maximize equals maximize(code),
\* and the code unchanged if none does.
C18_MinimizeFirstNarrowing ==
    Minimized =>
        \A same \in {SameMaximum(code_x)} :
            code_y = IF same = {} THEN code_x
                     ELSE Narrowings(code_x)[CHOOSE i \in same : \A j \in same : i <= j]

\* Both the script-keeping and the region-keeping narrowing maximize to
\* the maximum of the code, the language alone does not, and the
\* script-keeping one was returned (zh-Hant-TW gives zh-Hant).
C18_Witness ==
    /\ Minimized
    /\ SameMaximum(code_x) = {2, 3}
    /\ Narrowings(code_x)[2] # Narrowings(code_x)[3]
    /\ code_y = Narrowings(code_x)[2]

\* The seven maskings of a code, in the order of broaden.
SevenMaskings(code) ==
    [i \in 1..7 |->
        BitAnd(code, <<BitOr(LANGUAGE_MASK, BitOr(SCRIPT_MASK, REGION_MASK)),
                       BitOr(LANGUAGE_MASK, REGION_MASK),
                       BitOr(LANGUAGE_MASK, SCRIPT_MASK),
                       LANGUAGE_MASK, REGION_MASK, SCRIPT_MASK, {}>>[i])]

\* The positions of the maskings that differ from the code.
Differing(code) == {i \in 1..7 : SevenMaskings(code)[i] # code}

\* C19: broaden(code) is the subsequence of the seven maskings [language |
\* script | region, language | region, language | script, language, region,
\* script, empty] made of the entries that differ from the code, in that
\* order; no element of it equals the code.
C19_BroadenIsFilteredMaskings ==
    pc = "broaden" =>
        \A kept \in {Differing(code_x)} :
            /\ Len(broadened) = Cardinality(kept)
            /\ \A i \in kept :
                   broadened[Cardinality({j \in kept : j <= i})] = SevenMaskings(code_x)[i]
            /\ \A k \in DOMAIN broadened : broadened[k] # code_x

\* Some maskings were dropped and some kept, the empty code last.
C19_Witness ==
    /\ pc = "broaden"
    /\ Len(broadened) \in 2..6
    /\ broadened[Len(broadened)] = EMPTY_CODE
    /\ broadened[1] # EMPTY_CODE

\* C20: update(old, new) has, in each of the regions language | extlang
\* (with the proto bit), script and region, the bits of new if new has a
\* nonzero bit there and the bits of old otherwise; update(old, EMPTY) is
\* old.
C20_UpdatePerRegion ==
    pc = "update_code" =>
        /\ \A mask \in UpdateRegions :
               BitAnd(code_y, mask) = IF BitAnd(code_b, mask) # {} THEN BitAnd(code_b, mask)
                                      ELSE BitAnd(code_x, mask)
        /\ code_b = EMPTY_CODE => code_y = code_x

\* A code with an extlang or the proto bit was updated with one that has a
\* language and no region, and the two differ in every region.
C20_Witness ==
    /\ pc = "update_code"
    /\ BitAnd(code_x, BitOr(PROTO_MASK, EXTLANG_MASK)) # {}
    /\ BitAnd(code_b, LANGUAGE_MASK) # {}
    /\ BitAnd(code_b, REGION_MASK) = {}
    /\ \A mask \in UpdateRegions : BitAnd(code_x, mask) # BitAnd(code_b, mask)
    /\ BitAnd(code_y, LANGUAGE_EXT_MASK) = BitAnd(code_b, LANGUAGE_EXT_MASK)
    /\ BitAnd(code_y, REGION_MASK) = BitAnd(code_x, REGION_MASK)

-----------------------------------------------------------------------------
(* The distance engine, level by level                                     *)

\* The code is of this language (and has no extlang) ...
IsLanguage(code, language) ==
    decode_language(code) = language /\ decode_extlang(code) = None
\* ... and of one of these regions.
InRegions(code, language, regions) ==
    IsLanguage(code, language) /\ decode_region(code) \in {Some(r) : r \in regions}

\* The wildcard amount of a pair whose regions differ, as section 4.8 of
\* the specification gives it.
WildcardAmount(a, b) ==
    LET both(language) == IsLanguage(a, language) /\ IsLanguage(b, language)
        either(language, regions) ==
            InRegions(a, language, regions) \/ InRegions(b, language, regions)
    IN IF both(<<"p", "t">>)
       THEN IF either(<<"p", "t">>, {<<"B", "R">>, <<"U", "S">>}) THEN 8 ELSE 4
       ELSE IF both(<<"e", "n">>)
       THEN IF either(<<"e", "n">>, {<<"U", "S">>}) THEN 6
            ELSE IF either(<<"e", "n">>, {<<"G", "B">>, <<"0", "0", "1">>}) THEN 4
            ELSE 5
       ELSE IF both(<<"e", "s">>)
       THEN IF either(<<"e", "s">>, {<<"E", "S">>}) THEN 8
            ELSE IF either(<<"e", "s">>, {<<"4", "1", "9">>}) THEN 4
            ELSE 5
       ELSE 4

\* match_distance has compared two different maximized codes that have no
\* entry of their own in MATCH_DISTANCE.
RegionLevel ==
    /\ pc = "distance"
    /\ Max1 # Max2
    /\ language_pair_bytes(Max1, Max2) \notin DOMAIN static_maps.MATCH_DISTANCE

\* C21: the region-level distance of two different maximized codes with no
\* MATCH_DISTANCE entry is their script distance when the regions agree,
\* and their script distance plus the wildcard amount otherwise: for pt 8
\* if either is pt-BR or pt-US, else 4; for en 6 if either is en-US, else 4
\* if either is en-GB or en-001, else 5; for es 8 if either is es-ES, else
\* 4 if either is es-419, else 5; and 4 for every other pair.
C21_RegionDistance ==
    RegionLevel =>
        \A a \in {Max1}, b \in {Max2} :
            dist = match_distance_script(a, b)
                   + IF BitAnd(a, REGION_MASK) = BitAnd(b, REGION_MASK) THEN 0
                     ELSE WildcardAmount(a, b)

\* Two regional forms of English, neither of them en-US, one of them en-GB
\* or en-001, were compared: the wildcard amount is 4.
C21_Witness ==
    /\ RegionLevel
    /\ IsLanguage(Max1, <<"e", "n">>) /\ IsLanguage(Max2, <<"e", "n">>)
    /\ BitAnd(Max1, REGION_MASK) # BitAnd(Max2, REGION_MASK)
    /\ ~InRegions(Max1, <<"e", "n">>, {<<"U", "S">>})
    /\ ~InRegions(Max2, <<"e", "n">>, {<<"U", "S">>})
    /\ InRegions(Max2, <<"e", "n">>, {<<"G", "B">>, <<"0", "0", "1">>})
    /\ dist = 4

\* The MATCH_DISTANCE entry of the ordered pair (desired, supported) of the
\* two codes cut to these bits, or None.
TableEntry(a, b, mask) ==
    LET key == <<BitAnd(a, mask), BitAnd(b, mask)>>
    IN IF key \in DOMAIN static_maps.MATCH_DISTANCE
       THEN Some(static_maps.MATCH_DISTANCE[key]) ELSE None

\* language_distance and script_distance as section 4.8 of the
\* specification gives them.
LanguageDistance(a, b) ==
    IF BitAnd(a, LANGUAGE_EXT_MASK) = BitAnd(b, LANGUAGE_EXT_MASK) THEN 0
    ELSE IF IsSome(TableEntry(a, b, LANGUAGE_EXT_MASK))
    THEN Unwrap(TableEntry(a, b, LANGUAGE_EXT_MASK))
    ELSE 80
ScriptDistance(a, b) ==
    LET ls == BitOr(LANGUAGE_EXT_MASK, SCRIPT_MASK)
        hans == BitAnd(encode_tag(<<"u", "n", "d", "-", "H", "a", "n", "s">>), SCRIPT_MASK)
        hant == BitAnd(encode_tag(<<"u", "n", "d", "-", "H", "a", "n", "t">>), SCRIPT_MASK)
        script1 == BitAnd(a, SCRIPT_MASK)
        script2 == BitAnd(b, SCRIPT_MASK)
    IN IF BitAnd(a, ls) = BitAnd(b, ls) THEN 0
       ELSE IF script1 = script2 THEN LanguageDistance(a, b)
       ELSE IF IsSome(TableEntry(a, b, ls)) THEN Unwrap(TableEntry(a, b, ls))
       ELSE LanguageDistance(a, b)
            + (IF script1 = hans /\ script2 = hant THEN 15
               ELSE IF script1 = hant /\ script2 = hans THEN 19
               ELSE 40)

\* What the region level adds to the script distance.
RegionAmount(a, b) ==
    IF BitAnd(a, REGION_MASK) = BitAnd(b, REGION_MASK) THEN 0 ELSE WildcardAmount(a, b)

\* C22: the script distance is 0 when language and script are equal, the
\* language distance when only the scripts are equal, else the
\* MATCH_DISTANCE entry of (lang1 | script1, lang2 | script2) if there is
\* one, else the language distance plus 15 for Simplified -> Traditional, 19
\* for Traditional -> Simplified and 40 for any other pair of scripts; the
\* language distance is 0 for equal languages, else the entry of the
\* language-only pair, else 80.  The keys are ordered, desired first.
C22_ScriptAndLanguageDistance ==
    RegionLevel =>
        \A a \in {Max1}, b \in {Max2} :
            /\ match_distance_script(a, b) = ScriptDistance(a, b)
            /\ match_distance_language(a, b) = LanguageDistance(a, b)
            /\ dist = RegionAmount(a, b) + ScriptDistance(a, b)

\* The distance came from an entry of the script level that has no entry
\* for the reverse pair (ta -> en is 10 + 4; en -> ta is 124).
C22_Witness ==
    /\ RegionLevel
    /\ IsSome(TableEntry(Max1, Max2, BitOr(LANGUAGE_EXT_MASK, SCRIPT_MASK)))
    /\ ~IsSome(TableEntry(Max2, Max1, BitOr(LANGUAGE_EXT_MASK, SCRIPT_MASK)))
    /\ BitAnd(Max1, SCRIPT_MASK) # BitAnd(Max2, SCRIPT_MASK)
    /\ dist = 14

-----------------------------------------------------------------------------
(* The order of the subtags                                                *)

\* The subtags of the normalized input, and those before the first extension
\* subtag (all of them when there is none).
Tokens == Subtags(to_lowercase(replace(tag_in, "_", "-")))
ExtensionAt(toks) == {i \in 2..Len(toks) : toks[i] \in {<<"u">>, <<"x">>}}
BeforeExtension(toks) ==
    IF ExtensionAt(toks) = {} THEN toks
    ELSE SubSeq(toks, 1, (CHOOSE i \in ExtensionAt(toks) : \A j \in ExtensionAt(toks) : i <= j) - 1)
VariantShape(t) ==
    /\ \A i \in 1..Len(t) : t[i] \in LowerChars \cup DigitChars
    /\ Len(t) >= 5 \/ (Len(t) = 4 /\ IsDigit(t[1]))

\* The place of a subtag in the order extlang, script, region, variant; 0 for
\* a subtag of no such shape.
Place(t) ==
    IF VariantShape(t) THEN 4
    ELSE IF RegionShape(t) THEN 3
    ELSE IF ScriptShape(t) THEN 2
    ELSE IF ExtlangShape(t) THEN 1
    ELSE 0
\* At most three extlangs, then at most one script, one region, one variant.
InOrder(toks) ==
    /\ Cardinality({i \in 2..Len(toks) : Place(toks[i]) = 1}) <= 3
    /\ \A i, j \in 2..Len(toks) :
          i < j => \/ Place(toks[i]) < Place(toks[j])
                   \/ Place(toks[i]) = 1 /\ Place(toks[j]) = 1
WithoutVariants(toks) ==
    <<toks[1]>> \o SelectSeq(Tail(toks), LAMBDA t : ~VariantShape(t))

\* The language subtag is one the parser takes and goes on from, and every
\* subtag before the first extension has one of the four shapes.
OrderedTokens(toks) ==
    /\ toks[1] \notin {<<"i">>, <<"x">>}
    /\ \A i \in 2..Len(toks) : Place(toks[i]) # 0
    /\ parse_tag(toks[1], build = "debug").kind = "Ok"
OrderedCase == pc # "start" /\ OrderedTokens(BeforeExtension(Tokens))

\* C23: after the language subtag the parser accepts exactly at most three
\* extlangs, then at most one script, then at most one region, then at most
\* one variant, optionally ended by an extension subtag u or x after which
\* everything is ignored without error; any other order is a
\* SubtagFormatError, and variants never change the bits of the code.
\* (Stated of the state parse_tag leaves; no later step changes its result.)
C23_TokenOrder ==
    pc = "parsed" =>
        \A toks \in {BeforeExtension(Tokens)} :
            OrderedTokens(toks) =>
                IF InOrder(toks)
                THEN /\ parsed.kind = "Ok"
                     /\ parsed.val = parse_tag(join(WithoutVariants(toks), "-"), build = "debug").val
                ELSE parsed.kind = "SubtagFormatError"

\* Three extlangs, a script, a region, a variant and an extension with a
\* payload that is no subtag at all: accepted.
C23_Witness ==
    /\ OrderedCase
    /\ parsed.kind = "Ok"
    /\ Len(Tokens) = 9
    /\ Len(BeforeExtension(Tokens)) = 7
    /\ Tokens[9] = <<"e", "!">>
    /\ parsed.val # parse_tag(Tokens[1], build = "debug").val

-----------------------------------------------------------------------------
(* Extlangs and the proto bit                                              *)

Pro == <<"p", "r", "o">>
\* The extlang subtags among these, and those of them that are not pro.
ExtlangsOf(toks) == SelectSeq(Tail(toks), ExtlangShape)
NamedOf(exts) == SelectSeq(exts, LAMBDA t : t # Pro)
ProIn(exts) == \E i \in 1..Len(exts) : exts[i] = Pro
\* What the extlang part of the decoded tag is to be: a sequence of subtags.
ExtlangPartOf(exts) ==
    (IF NamedOf(exts) = <<>> THEN <<>> ELSE <<NamedOf(exts)[1]>>)
    \o (IF ProIn(exts) THEN <<Pro>> ELSE <<>>)
\* The same of the input.
ExtlangTokens == ExtlangsOf(BeforeExtension(Tokens))
NamedExtlangs == NamedOf(ExtlangTokens)
HasPro == ProIn(ExtlangTokens)
ExtlangPart == ExtlangPartOf(ExtlangTokens)

\* C24: every extlang subtag pro sets the proto bit; the first extlang
\* subtag that is not pro is stored in the extlang field and later ones are
\* dropped; every extlang subtag, pro too, counts towards the limit of
\* three; decoding gives "<extlang>-pro" when both are set and "pro" when
\* only the proto bit is set.
C24_ExtlangAndProto ==
    pc # "start" =>
        \A toks \in {BeforeExtension(Tokens)} :
            OrderedTokens(toks) =>
                \A exts \in {ExtlangsOf(toks)} : \A part \in {ExtlangPartOf(exts)} :
                    /\ Len(exts) > 3 => parsed.kind = "SubtagFormatError"
                    /\ parsed.kind = "Ok" =>
                          /\ Len(exts) <= 3
                          /\ (BitAnd(parsed.val, PROTO_MASK) # {}) <=> ProIn(exts)
                          /\ decode_subtag(Shr(BitAnd(parsed.val, EXTLANG_MASK), EXTLANG_SHIFT))
                                = (IF NamedOf(exts) = <<>> THEN None ELSE Some(NamedOf(exts)[1]))
                          /\ pc = "parsed" =>
                                decode_extlang(parsed.val)
                                  = (IF part = <<>> THEN None ELSE Some(join(part, "-")))
                          /\ (pc = "unparsed" /\ unparsed.kind = "Ok") =>
                                SubSeq(Subtags(unparsed.str), 2, 1 + Len(part)) = part

\* Two named extlangs and pro: the first is kept, the second dropped, and
\* the tag reads "...-cmn-pro...".
C24_Witness ==
    /\ OrderedCase
    /\ pc = "unparsed" /\ unparsed.kind = "Ok"
    /\ Len(NamedExtlangs) = 2 /\ HasPro
    /\ ExtlangPart = <<<<"c", "m", "n">>, Pro>>
    /\ SubSeq(Subtags(unparsed.str), 2, 3) = ExtlangPart

\* Only pro: the proto bit alone, decoded as "pro".
C24_WitnessProtoAlone ==
    /\ OrderedCase
    /\ pc = "unparsed" /\ unparsed.kind = "Ok"
    /\ ExtlangPart = <<Pro>>
    /\ Subtags(unparsed.str)[2] = Pro

-----------------------------------------------------------------------------
(* The subtag codec                                                        *)

\* s precedes t in the lexicographic order of strings.
Precedes(s, t) ==
    \/ Len(s) < Len(t) /\ SubSeq(t, 1, Len(s)) = s
    \/ \E i \in 1..Len(s) :
          /\ i <= Len(t)
          /\ SubSeq(s, 1, i - 1) = SubSeq(t, 1, i - 1)
          /\ Byte(s[i]) < Byte(t[i])
IsLetters(t) == \A i \in 1..Len(t) : t[i] \in LowerChars
\* The number a, b, .. z stand for: 1 .. 26.
LetterNumber(c) == CHOOSE n \in 1..26 : LowerSeq[n] = c
\* The letters packed five bits each, first letter highest.
RECURSIVE Packed(_)
Packed(t) ==
    IF t = <<>> THEN 0
    ELSE 32 * Packed(SubSeq(t, 1, Len(t) - 1)) + LetterNumber(t[Len(t)])
RECURSIVE Pow32(_)
Pow32(n) == IF n = 0 THEN 1 ELSE 32 * Pow32(n - 1)
\* The value of a string of digits.
RECURSIVE Value(_)
Value(t) ==
    IF t = <<>> THEN 0
    ELSE 10 * Value(SubSeq(t, 1, Len(t) - 1))
         + (CHOOSE d \in 0..9 : DigitSeq[d + 1] = t[Len(t)])
\* The three digits that write n.
ThreeDigits(n) ==
    CHOOSE d \in [1..3 -> DigitChars] : Value(d) = n

\* Both subtags are letters and no longer than the length.
TwoLetterSubtags ==
    /\ pc \in {"encoded", "decoded"}
    /\ IsLetters(subtag_in) /\ Len(subtag_in) \in 1..length_in
    /\ IsLetters(other_in) /\ Len(other_in) \in 1..length_in

\* C25: for two alphabetic subtags of length 1..w encoded with the same
\* width w, one precedes the other lexicographically exactly when its
\* encoding is the smaller number, and every alphabetic encoding is at least
\* 1000, outside the numeric range 1..999.
C25_EncodingKeepsOrder ==
    TwoLetterSubtags =>
        /\ ~encoded[1].panic /\ ~encoded[2].panic
        /\ encoded[1].val \subseteq 0..30 /\ encoded[2].val \subseteq 0..30
        /\ Precedes(subtag_in, other_in) <=> Nat31(encoded[1].val) < Nat31(encoded[2].val)
        /\ Nat31(encoded[1].val) >= 1000

\* "enm" against "es" with length 3: the longer subtag is the smaller number.
C25_Witness ==
    /\ TwoLetterSubtags
    /\ subtag_in = <<"e", "n", "m">> /\ other_in = <<"e", "s">> /\ length_in = 3
    /\ Nat31(encoded[1].val) < Nat31(encoded[2].val)

\* C26: an alphabetic subtag of length 1..w is encoded as its letters packed
\* five bits each (a = 1 .. z = 26), shifted by 5 * (w - len), plus 1000, and
\* decodes to itself; a subtag of digits with a value in 1..999 is encoded as
\* that value and decodes to its three digits, zero-padded; 0 decodes to
\* absent.
C26_CodecRoundTrip ==
    /\ (pc \in {"encoded", "decoded"} /\ IsLetters(subtag_in) /\ Len(subtag_in) \in 1..length_in) =>
          /\ ~encoded[1].panic
          /\ encoded[1].val = U64(Packed(subtag_in) * Pow32(length_in - Len(subtag_in)) + 1000)
          /\ pc = "decoded" => decoded = Some(Some(subtag_in))
    /\ (pc \in {"encoded", "decoded"} /\ subtag_in \in DigitSubtags /\ Value(subtag_in) \in 1..999) =>
          /\ ~encoded[1].panic
          /\ encoded[1].val = U64(Value(subtag_in))
          /\ pc = "decoded" => decoded = Some(Some(ThreeDigits(Value(subtag_in))))
    /\ (pc = "decoded" /\ encoded[1].val = U64(0)) => decoded = Some(None)

\* A subtag shorter than the length came back, and so did a short number
\* with its zeros.
C26_Witness ==
    /\ pc = "decoded"
    /\ subtag_in = <<"e", "s">> /\ length_in = 4
    /\ decoded = Some(Some(<<"e", "s">>))
C26_WitnessNumber ==
    /\ pc = "decoded"
    /\ subtag_in = <<"1", "2">>
    /\ decoded = Some(Some(<<"0", "1", "2">>))
C26_WitnessZero ==
    /\ pc = "decoded"
    /\ subtag_in = <<"0", "0", "0">>
    /\ decoded = Some(None)

-----------------------------------------------------------------------------
(* maximize gives a full code                                              *)

\* Every value of LIKELY_SUBTAGS has a language, a script and a region, and
\* the empty code is a key.
LikelySubtagsFull ==
    /\ EMPTY_CODE \in DOMAIN static_maps.LIKELY_SUBTAGS
    /\ \A k \in DOMAIN static_maps.LIKELY_SUBTAGS : Complete(static_maps.LIKELY_SUBTAGS[k])

\* C27: when every value of LIKELY_SUBTAGS is complete and the empty code is
\* a key, maximize of a code the parser produces has its language, script
\* and region fields all nonzero, also when the code carries an extlang or
\* the proto bit and no language (the parse of "und-pro").
C27_MaximizeIsComplete ==
    (Maximized /\ LikelySubtagsFull /\ code_x \notin RawCodes) =>
        code_y # Panicked /\ Complete(code_y)

\* maximize of the parse of "und-pro": en-Latn-US with the language and
\* extlang fields replaced by those of the code, so the language is zero.
C27_ProtoAloneLosesLanguage ==
    /\ Maximized
    /\ LikelySubtagsFull
    /\ code_x = PROTO_MASK
    /\ BitAnd(code_y, LANGUAGE_MASK) = {}
    /\ BitAnd(code_y, SCRIPT_MASK) # {} /\ BitAnd(code_y, REGION_MASK) # {}

-----------------------------------------------------------------------------
(* The direction of the distance in match_desired                          *)

\* match_desired or match_desired_with_cutoff returned one of the candidates.
DesiredCandidateReturned ==
    /\ pc \in {"match_desired", "match_desired_with_cutoff"}
    /\ \E i \in DOMAIN have : have[i] = matched[1]

\* C28: for a supported code s and a list of desired candidates, the
\* distance match_desired ranks by and reports for a candidate c is
\* match_distance(c, s): the candidate in the desired position and s in the
\* supported position.
C28_DesiredDistanceDirection ==
    DesiredCandidateReturned => matched[2] = match_distance(matched[1], want)

\* The supported code zh-Hant with the one candidate zh: reported is
\* match_distance(zh-Hant, zh) = 23, not match_distance(zh, zh-Hant) = 19.
C28_SupportedInDesiredPosition ==
    /\ DesiredCandidateReturned
    /\ have = <<encode_tag(<<"z", "h">>)>>
    /\ want = encode_tag(<<"z", "h", "-", "H", "a", "n", "t">>)
    /\ matched[2] = 23
    /\ match_distance(matched[1], want) = 19
    /\ match_distance(want, matched[1]) = 23


=============================================================================
